---- MODULE Spec2Model ----
(***************************************************************************)
(* A model of the Dash Platform data contract creator (src/src/main.rs):   *)
(* the editing session (Model::update), the contract compiler              *)
(* (generate_json_object / generate_nested_properties), the importer       *)
(* (parse_imported_json) and the validation adapter (validate /            *)
(* extract_basic_error_messages).                                          *)
(*                                                                         *)
(* Conventions.                                                            *)
(*  - Option<T> is a sequence of length at most one: None is <<>> and      *)
(*    Some(x) is <<x>>.                                                    *)
(*  - Vec<T> is a sequence.                                                *)
(*  - A serde_json Value is a tagged record [t |-> tag, v |-> payload];    *)
(*    an object's payload is a function from its keys to Values.           *)
(*  - A text (the import box, one entry of json_object) is modelled by     *)
(*    what serde_json::from_str makes of it, not by its characters.        *)
(***************************************************************************)
EXTENDS Integers, Sequences, FiniteSets, TLC

VARIABLES
    document_types,   \* Model.document_types : Vec<DocumentType>
    json_object,      \* Model.json_object    : Vec<String>, one text per document type
    imported_json,    \* Model.imported_json  : String
    error_messages,   \* Model.error_messages : Vec<String>
    panicked,         \* TRUE once a handler has panicked (the wasm instance is dead)
    last,             \* the message update() handled last, with the inputs it had
    budget            \* messages the session may still handle; -1 is no limit

vars == <<document_types, json_object, imported_json, error_messages, panicked, last, budget>>

----------------------------------------------------------------------------
(* Bounds of the model. *)

MaxSteps == 3       \* messages per session in Spec
MaxRequiredSteps == 4  \* messages per session in SpecRequired
MaxNestedSteps == 6    \* messages per session in SpecNested
MaxSetSteps == 6        \* messages in a session of SpecSets
MaxDocs == 2        \* document types in the editor
MaxProps == 3       \* properties per document type
MaxRecProps == 2    \* inner properties per Object property
MaxIndices == 1     \* indices per document type
MaxIndexProps == 2  \* properties per index

----------------------------------------------------------------------------
(* Option and Vec helpers. *)

None == <<>>
Some(x) == <<x>>
IsSome(o) == o # <<>>
Unwrap(o) == o[1]

Contains(seq, x) == \E i \in 1..Len(seq) : seq[i] = x
Retain(seq, x) == SelectSeq(seq, LAMBDA y : y # x)
ToSet(seq) == {seq[i] : i \in 1..Len(seq)}
RemoveAt(seq, i) == [j \in 1..(Len(seq) - 1) |-> IF j < i THEN seq[j] ELSE seq[j + 1]]
NoDuplicates(seq) == \A i, j \in 1..Len(seq) : seq[i] = seq[j] => i = j

\* The sequences that list every element of the finite set S exactly once.
Orderings(S) ==
    {s \in [1..Cardinality(S) -> S] : \A i, j \in 1..Cardinality(S) : s[i] = s[j] => i = j}

\* "num as u32" of a u64 and "num as i32" of an i64 keep the low 32 bits. Every
\* number of the model lies within -2^31 .. 2^31 - 1 (TLC's own integers),
\* where the u64 -> u32 cast of a non-negative number and the i64 -> i32 cast
\* change nothing.
U32(n) == n
I32(n) == n

----------------------------------------------------------------------------
(* The value model. *)

DataTypes == {"String", "Integer", "Array", "Object", "Number", "Boolean"}

\* impl Default for DocumentType
DocumentTypeDefault ==
    [name |-> "", properties |-> <<>>, indices |-> <<>>, required |-> <<>>,
     additionalProperties |-> FALSE, comment |-> ""]

\* #[derive(Default)] struct Property
PropertyDefault ==
    [name |-> "", data_type |-> "String", required |-> FALSE,
     description |-> None, comment |-> None,
     min_length |-> None, max_length |-> None, pattern |-> None, format |-> None,
     minimum |-> None, maximum |-> None,
     byte_array |-> None, min_items |-> None, max_items |-> None,
     properties |-> None, min_properties |-> None, max_properties |-> None,
     rec_required |-> None, additional_properties |-> None]

\* #[derive(Default)] struct Index
IndexDefault == [name |-> "", properties |-> <<>>, unique |-> FALSE]

\* impl Default for IndexProperties
IndexPropertiesDefault == <<"", "asc">>

\* fn default_additional_properties: every arm is Default::default() with the
\* data type set; "_ => panic!" is out of reach of the six <option> values.
default_additional_properties(data_type) ==
    [PropertyDefault EXCEPT !.data_type = data_type]

----------------------------------------------------------------------------
(* serde_json values. *)

JNull == [t |-> "null", v |-> 0]
JStr(s) == [t |-> "string", v |-> s]
JNum(n) == [t |-> "number", v |-> n]
JBool(b) == [t |-> "bool", v |-> b]
JArr(seq) == [t |-> "array", v |-> seq]
JObj(map) == [t |-> "object", v |-> map]

\* The map holding the given <<key, value>> pairs (keys distinct).
MapOf(entries) ==
    [k \in {e[1] : e \in entries} |-> (CHOOSE e \in entries : e[1] = k)[2]]

\* json!(Vec<String>)
JStrings(seq) == JArr([i \in 1..Len(seq) |-> JStr(seq[i])])

as_object(x) == IF x.t = "object" THEN Some(x.v) ELSE None
as_array(x) == IF x.t = "array" THEN Some(x.v) ELSE None
as_str(x) == IF x.t = "string" THEN Some(x.v) ELSE None
as_bool(x) == IF x.t = "bool" THEN Some(x.v) ELSE None
as_u64(x) == IF x.t = "number" /\ x.v >= 0 THEN Some(x.v) ELSE None
as_i64(x) == IF x.t = "number" THEN Some(x.v) ELSE None
Get(map, k) == IF k \in DOMAIN map THEN Some(map[k]) ELSE None

----------------------------------------------------------------------------
(* The contract compiler. *)

\* prop.data_type -> "type"
TypeName(data_type) ==
    CASE data_type = "String" -> "string"
      [] data_type = "Integer" -> "integer"
      [] data_type = "Array" -> "array"
      [] data_type = "Object" -> "object"
      [] data_type = "Number" -> "number"
      [] data_type = "Boolean" -> "boolean"

\* opt.as_ref().map(|c| c.len()).unwrap_or(0) > 0, for Option<String>
NonEmptyString(opt) == IF IsSome(opt) THEN Unwrap(opt) # "" ELSE FALSE

\* A variant of the test below that asks only whether the field is set.
PresentNumber(opt) == IsSome(opt)

\* opt.as_ref().map(|c| *c).unwrap_or(0) > 0, for Option<u32> and Option<i32>
GreaterThanZero(opt) == (IF IsSome(opt) THEN Unwrap(opt) ELSE 0) > 0

\* A test that takes a property for an object only when it has children.
HasChildList(prop) == IsSome(prop.properties) /\ Unwrap(prop.properties) # <<>>

\* A test that takes a byte_array of false for an absent one.
ByteArrayIsTrue(prop) == IsSome(prop.byte_array) /\ Unwrap(prop.byte_array)

\* if let Some(byte_array) = prop.byte_array
HasByteArray(prop) == IsSome(prop.byte_array)

\* prop.data_type == DataType::Object
IsObject(prop) == prop.data_type = "Object"

\* One optional key: present with the given value when cond holds.
Entry(cond, key, value) == IF cond THEN {<<key, value>>} ELSE {}

\* props_map / rec_props_map after all inserts: a later insert under the same
\* name replaces the earlier one.
LastNamed(props, name) ==
    CHOOSE i \in 1..Len(props) :
        /\ props[i].name = name
        /\ \A j \in (i + 1)..Len(props) : props[j].name # name

\* objs[i] is the object compiled for props[i]; the map keeps, under each name,
\* the object of the last property inserted under it.
PropsMap(props, objs) ==
    [name \in {props[i].name : i \in 1..Len(props)} |-> objs[LastNamed(props, name)]]

\* rec_prop_obj of generate_nested_properties
rec_prop_obj(rec_prop) ==
    JObj(MapOf(
        {<<"type", JStr(TypeName(rec_prop.data_type))>>}
        \cup Entry(NonEmptyString(rec_prop.description), "description", JStr(Unwrap(rec_prop.description)))
        \cup Entry(GreaterThanZero(rec_prop.min_length), "minLength", JNum(Unwrap(rec_prop.min_length)))
        \cup Entry(GreaterThanZero(rec_prop.max_length), "maxLength", JNum(Unwrap(rec_prop.max_length)))
        \cup Entry(NonEmptyString(rec_prop.pattern), "pattern", JStr(Unwrap(rec_prop.pattern)))
        \cup Entry(NonEmptyString(rec_prop.format), "format", JStr(Unwrap(rec_prop.format)))
        \cup Entry(GreaterThanZero(rec_prop.minimum), "minimum", JNum(Unwrap(rec_prop.minimum)))
        \cup Entry(GreaterThanZero(rec_prop.maximum), "maximum", JNum(Unwrap(rec_prop.maximum)))
        \cup Entry(HasByteArray(rec_prop), "byteArray", JBool(Unwrap(rec_prop.byte_array)))
        \cup Entry(GreaterThanZero(rec_prop.min_items), "minItems", JNum(Unwrap(rec_prop.min_items)))
        \cup Entry(GreaterThanZero(rec_prop.max_items), "maxItems", JNum(Unwrap(rec_prop.max_items)))
        \cup Entry(IsObject(rec_prop), "properties", JObj(MapOf({})))
        \cup Entry(GreaterThanZero(rec_prop.min_properties), "minProperties", JNum(Unwrap(rec_prop.min_properties)))
        \cup Entry(GreaterThanZero(rec_prop.max_properties), "maxProperties", JNum(Unwrap(rec_prop.max_properties)))
        \cup Entry(IsObject(rec_prop), "additionalProperties", JBool(FALSE))
        \cup Entry(NonEmptyString(rec_prop.comment), "$comment", JStr(Unwrap(rec_prop.comment)))))

\* The required bookkeeping of generate_nested_properties for one child:
\* rec_required is an Option<Vec<String>>.
RecRequiredStep(rec_required, rec_prop) ==
    IF rec_prop.required
    THEN IF ~Contains(IF IsSome(rec_required) THEN Unwrap(rec_required) ELSE <<>>, rec_prop.name)
         THEN Some(Append(IF IsSome(rec_required) THEN Unwrap(rec_required) ELSE <<>>, rec_prop.name))
         ELSE rec_required
    ELSE IF IsSome(rec_required) /\ Contains(Unwrap(rec_required), rec_prop.name)
         THEN Some(Retain(Unwrap(rec_required), rec_prop.name))
         ELSE rec_required

RECURSIVE RecRequiredLoop(_, _)
RecRequiredLoop(rec_required, nested_props) ==
    IF nested_props = <<>> THEN rec_required
    ELSE RecRequiredLoop(RecRequiredStep(rec_required, Head(nested_props)), Tail(nested_props))

\* fn generate_nested_properties(prop: &mut Property) -> Map<String, Value>:
\* the map it returns and prop as it leaves it.
generate_nested_properties(prop) ==
    IF IsSome(prop.properties)
    THEN [map |-> PropsMap(Unwrap(prop.properties),
                         [i \in DOMAIN Unwrap(prop.properties) |-> rec_prop_obj(Unwrap(prop.properties)[i])]),
          prop |-> [prop EXCEPT !.rec_required = RecRequiredLoop(@, Unwrap(prop.properties))]]
    ELSE [map |-> MapOf({}), prop |-> prop]

\* A pass that moves the child list out of prop while it compiles it.
TakesChildren(prop) ==
    IF prop.data_type = "Object"
    THEN [generate_nested_properties(prop).prop EXCEPT !.properties = None]
    ELSE prop

\* One pass of the loop over doc_type.properties: prop as the pass leaves it
\* (generate_nested_properties runs only for an Object property).
CompiledProperty(prop) ==
    IF prop.data_type = "Object" THEN generate_nested_properties(prop).prop ELSE prop

\* prop_obj of generate_json_object; "required" reads rec_required after
\* generate_nested_properties has updated it.
prop_obj(prop) ==
    LET after == CompiledProperty(prop) IN
    JObj(MapOf(
        {<<"type", JStr(TypeName(prop.data_type))>>}
        \cup Entry(NonEmptyString(prop.description), "description", JStr(Unwrap(prop.description)))
        \cup Entry(GreaterThanZero(prop.min_length), "minLength", JNum(Unwrap(prop.min_length)))
        \cup Entry(GreaterThanZero(prop.max_length), "maxLength", JNum(Unwrap(prop.max_length)))
        \cup Entry(NonEmptyString(prop.pattern), "pattern", JStr(Unwrap(prop.pattern)))
        \cup Entry(NonEmptyString(prop.format), "format", JStr(Unwrap(prop.format)))
        \cup Entry(GreaterThanZero(prop.minimum), "minimum", JNum(Unwrap(prop.minimum)))
        \cup Entry(GreaterThanZero(prop.maximum), "maximum", JNum(Unwrap(prop.maximum)))
        \cup Entry(HasByteArray(prop), "byteArray", JBool(Unwrap(prop.byte_array)))
        \cup Entry(GreaterThanZero(prop.min_items), "minItems", JNum(Unwrap(prop.min_items)))
        \cup Entry(GreaterThanZero(prop.max_items), "maxItems", JNum(Unwrap(prop.max_items)))
        \cup Entry(IsObject(prop), "properties", JObj(generate_nested_properties(prop).map))
        \cup Entry(GreaterThanZero(prop.min_properties), "minProperties", JNum(Unwrap(prop.min_properties)))
        \cup Entry(GreaterThanZero(prop.max_properties), "maxProperties", JNum(Unwrap(prop.max_properties)))
        \cup Entry(IsSome(after.rec_required) /\ Len(Unwrap(after.rec_required)) > 0,
                   "required", JStrings(Unwrap(after.rec_required)))
        \cup Entry(IsObject(prop), "additionalProperties", JBool(FALSE))
        \cup Entry(NonEmptyString(prop.comment), "$comment", JStr(Unwrap(prop.comment)))))

\* The bookkeeping without the contains test before the push.
PushesAgain(required, prop) ==
    IF prop.required THEN Append(required, prop.name) ELSE Retain(required, prop.name)

\* The required bookkeeping of generate_json_object for one property.
RequiredStep(required, prop) ==
    IF prop.required
    THEN IF ~Contains(required, prop.name) THEN Append(required, prop.name) ELSE required
    ELSE IF Contains(required, prop.name) THEN Retain(required, prop.name) ELSE required

RECURSIVE RequiredLoop(_, _)
RequiredLoop(required, props) ==
    IF props = <<>> THEN required
    ELSE RequiredLoop(RequiredStep(required, Head(props)), Tail(props))

\* index_obj: "unique" only when true.
index_obj(index) ==
    JObj(MapOf(
        {<<"name", JStr(index.name)>>,
         <<"properties", JArr([i \in 1..Len(index.properties) |->
                JObj(MapOf({<<index.properties[i][1], JStr(index.properties[i][2])>>}))])>>}
        \cup Entry(index.unique, "unique", JBool(index.unique))))

\* doc_type as one pass of the outer loop leaves it.
CompiledDocumentType(doc_type) ==
    [doc_type EXCEPT
        !.properties = [i \in 1..Len(doc_type.properties) |-> CompiledProperty(doc_type.properties[i])],
        !.required = RequiredLoop(doc_type.required, doc_type.properties)]

\* doc_obj, assembled after the property loop.
doc_obj(doc_type) ==
    LET after == CompiledDocumentType(doc_type) IN
    JObj(MapOf(
        {<<"type", JStr("object")>>,
         <<"properties", JObj(PropsMap(doc_type.properties,
                                    [i \in DOMAIN doc_type.properties |-> prop_obj(doc_type.properties[i])]))>>,
         <<"additionalProperties", JBool(FALSE)>>}
        \cup Entry(doc_type.indices # <<>>, "indices",
                   JArr([i \in 1..Len(doc_type.indices) |-> index_obj(doc_type.indices[i])]))
        \cup Entry(after.required # <<>>, "required", JStrings(after.required))
        \cup Entry(doc_type.comment # "", "$comment", JStr(doc_type.comment))))

\* formatted_doc_obj: the text "<name>":<doc_obj>, as the key and value a JSON
\* parser reads from it.
formatted_doc_obj(doc_type) == [key |-> doc_type.name, value |-> doc_obj(doc_type)]

\* A compile that pushes its entries at the front of json_arr.
PushesInFront(doc_types) ==
    [json_arr |-> [i \in 1..Len(doc_types) |-> formatted_doc_obj(doc_types[Len(doc_types) + 1 - i])],
     document_types |-> [i \in 1..Len(doc_types) |-> CompiledDocumentType(doc_types[i])]]

\* fn generate_json_object(&mut self) -> Vec<String>: json_arr and
\* self.document_types as the call leaves them.
generate_json_object(doc_types) ==
    [json_arr |-> [i \in 1..Len(doc_types) |-> formatted_doc_obj(doc_types[i])],
     document_types |-> [i \in 1..Len(doc_types) |-> CompiledDocumentType(doc_types[i])]]

----------------------------------------------------------------------------
(* Texts. A text is what the user types or pastes into the import box, or   *)
(* one the program writes: whether it is empty, and the Value                *)
(* serde_json::from_str reads from it (None when it is not JSON).           *)

EmptyText == [empty |-> TRUE, json |-> None]     \* String::new()
TextOf(value) == [empty |-> FALSE, json |-> Some(value)]
GarbageText == [empty |-> FALSE, json |-> None]  \* e.g. "{oops"

\* format!("{{{}}}", json_object.join(",")) read back by serde_json::from_str:
\* a repeated key keeps its last value.
JoinedObject(entries) ==
    JObj([k \in {entries[i].key : i \in 1..Len(entries)} |->
            entries[CHOOSE i \in 1..Len(entries) :
                        /\ entries[i].key = k
                        /\ \A j \in (i + 1)..Len(entries) : entries[j].key # k].value])

----------------------------------------------------------------------------
(* The contract importer. *)

\* The keys the model's documents use, in ascending order: serde_json::Map
\* yields its keys in this order.
KeyUniverse == <<"", "a", "b", "body", "inner", "note", "other">>
Rank(k) == CHOOSE i \in 1..Len(KeyUniverse) : KeyUniverse[i] = k

RECURSIVE MapKeys(_)
MapKeys(S) ==
    IF S = {} THEN <<>>
    ELSE LET first == CHOOSE x \in S : \A y \in S : Rank(x) <= Rank(y)
         IN <<first>> \o MapKeys(S \ {first})

\* serde_json::from_str::<HashMap<String, Value>>(..).unwrap_or_default()
parsed_json(text) ==
    IF IsSome(text.json) /\ IsSome(as_object(Unwrap(text.json)))
    THEN Unwrap(as_object(Unwrap(text.json)))
    ELSE MapOf({})

\* Whether the text parses as a JSON mapping.
ParsesAsMapping(text) == IsSome(text.json) /\ IsSome(as_object(Unwrap(text.json)))

TypeNames == {"string", "integer", "array", "object", "number", "boolean"}

\* A match that reads "number" as Integer.
NumberAsInteger(type_name) ==
    CASE type_name = "string" -> "String"
      [] type_name = "integer" -> "Integer"
      [] type_name = "array" -> "Array"
      [] type_name = "object" -> "Object"
      [] type_name = "number" -> "Integer"
      [] type_name = "boolean" -> "Boolean"

\* The match on data_type.as_str().unwrap() (both copies).
DataTypeOf(type_name) ==
    CASE type_name = "string" -> "String"
      [] type_name = "integer" -> "Integer"
      [] type_name = "array" -> "Array"
      [] type_name = "object" -> "Object"
      [] type_name = "number" -> "Number"
      [] type_name = "boolean" -> "Boolean"

\* data_type.as_str().unwrap() panics on a non-string; the match panics on
\* "Unexpected type value".
TypePanics(obj) ==
    /\ "type" \in DOMAIN obj
    /\ \/ as_str(obj["type"]) = None
       \/ Unwrap(as_str(obj["type"])) \notin TypeNames

\* A flag set whenever the owner has a "required" array, whatever it lists.
HasRequiredArray(owner_obj, name) ==
    "required" \in DOMAIN owner_obj /\ IsSome(as_array(owner_obj["required"]))

\* required_array.iter().any(|v| *v == Value::String(name)): only a string
\* element can be equal to a Value::String.
ListedIn(owner_obj, name) ==
    /\ "required" \in DOMAIN owner_obj
    /\ IsSome(as_array(owner_obj["required"]))
    /\ \E i \in 1..Len(Unwrap(as_array(owner_obj["required"]))) :
            as_str(Unwrap(as_array(owner_obj["required"]))[i]) = Some(name)

\* x.as_u64().map(|num| num as u32), x.as_i64().map(|num| num as i32),
\* x.as_str().map(|s| s.to_string())
AsU32(x) == IF IsSome(as_u64(x)) THEN Some(U32(Unwrap(as_u64(x)))) ELSE None
AsI32(x) == IF IsSome(as_i64(x)) THEN Some(I32(Unwrap(as_i64(x)))) ELSE None
AsString(x) == as_str(x)

\* The scalar fields read from a property object (the same list at both levels).
WithScalars(property, obj) ==
    [property EXCEPT
        !.data_type = IF "type" \in DOMAIN obj THEN DataTypeOf(Unwrap(as_str(obj["type"]))) ELSE @,
        !.byte_array = IF "byteArray" \in DOMAIN obj THEN as_bool(obj["byteArray"]) ELSE @,
        !.description = IF "description" \in DOMAIN obj THEN AsString(obj["description"]) ELSE @,
        !.comment = IF "$comment" \in DOMAIN obj THEN AsString(obj["$comment"]) ELSE @,
        !.min_length = IF "minLength" \in DOMAIN obj THEN AsU32(obj["minLength"]) ELSE @,
        !.max_length = IF "maxLength" \in DOMAIN obj THEN AsU32(obj["maxLength"]) ELSE @,
        !.pattern = IF "pattern" \in DOMAIN obj THEN AsString(obj["pattern"]) ELSE @,
        !.format = IF "format" \in DOMAIN obj THEN AsString(obj["format"]) ELSE @,
        !.minimum = IF "minimum" \in DOMAIN obj THEN AsI32(obj["minimum"]) ELSE @,
        !.maximum = IF "maximum" \in DOMAIN obj THEN AsI32(obj["maximum"]) ELSE @,
        !.min_items = IF "minItems" \in DOMAIN obj THEN AsU32(obj["minItems"]) ELSE @,
        !.max_items = IF "maxItems" \in DOMAIN obj THEN AsU32(obj["maxItems"]) ELSE @,
        !.min_properties = IF "minProperties" \in DOMAIN obj THEN AsU32(obj["minProperties"]) ELSE @,
        !.max_properties = IF "maxProperties" \in DOMAIN obj THEN AsU32(obj["maxProperties"]) ELSE @]

\* nested_property: built for one entry of a property's "properties" object;
\* required comes from the enclosing property object's "required".
nested_property(nested_prop_name, nested_prop_value, prop_obj_) ==
    LET named == [PropertyDefault EXCEPT
                     !.name = nested_prop_name,
                     !.required = ListedIn(prop_obj_, nested_prop_name)]
    IN WithScalars(named, Unwrap(as_object(nested_prop_value)))

\* nested_props_vec: a nested entry that is not an object is not pushed.
nested_props_vec(nested_props_map, prop_obj_) ==
    LET keys == MapKeys(DOMAIN nested_props_map)
        objs == SelectSeq(keys, LAMBDA k : IsSome(as_object(nested_props_map[k])))
    IN [i \in 1..Len(objs) |-> nested_property(objs[i], nested_props_map[objs[i]], prop_obj_)]

\* property: built for one entry of a document type's "properties" object.
imported_property(prop_name, prop_value, doc_type_obj) ==
    LET named == [PropertyDefault EXCEPT
                     !.name = prop_name,
                     !.required = ListedIn(doc_type_obj, prop_name)]
    IN IF as_object(prop_value) = None THEN named
       ELSE LET obj == Unwrap(as_object(prop_value))
                scalars == WithScalars(named, obj)
            IN IF "properties" \in DOMAIN obj /\ IsSome(as_object(obj["properties"]))
               THEN [scalars EXCEPT !.properties =
                        Some(nested_props_vec(Unwrap(as_object(obj["properties"])), obj))]
               ELSE scalars

\* Whether building the property panics (an unwrap or the match).
PropertyPanics(prop_value) ==
    /\ IsSome(as_object(prop_value))
    /\ LET obj == Unwrap(as_object(prop_value)) IN
       \/ TypePanics(obj)
       \/ /\ "properties" \in DOMAIN obj
          /\ IsSome(as_object(obj["properties"]))
          /\ \E k \in DOMAIN Unwrap(as_object(obj["properties"])) :
                LET nested == Unwrap(as_object(obj["properties"]))[k] IN
                IsSome(as_object(nested)) /\ TypePanics(Unwrap(as_object(nested)))

\* An index property taken from the first key iterated instead of the last.
FirstKeyWins(idx_prop_obj) ==
    IF DOMAIN idx_prop_obj = {} THEN IndexPropertiesDefault
    ELSE LET keys == MapKeys(DOMAIN idx_prop_obj)
         IN <<keys[1], Unwrap(as_str(idx_prop_obj[keys[1]]))>>

\* An index property read with the default sorting whatever the text says.
DefaultSorting(idx_prop_obj) ==
    IF DOMAIN idx_prop_obj = {} THEN IndexPropertiesDefault
    ELSE LET keys == MapKeys(DOMAIN idx_prop_obj)
         IN <<keys[Len(keys)], IndexPropertiesDefault[2]>>

\* index_properties: every key of the object overwrites both fields, so the
\* last key iterated stays (the default when the object is empty).
index_properties(idx_prop_obj) ==
    IF DOMAIN idx_prop_obj = {} THEN IndexPropertiesDefault
    ELSE LET keys == MapKeys(DOMAIN idx_prop_obj)
             name == keys[Len(keys)]
         IN <<name, Unwrap(as_str(idx_prop_obj[name]))>>

\* index: built for one object of the "indices" array.
imported_index(index_obj_) ==
    LET props == IF "properties" \in DOMAIN index_obj_ /\ IsSome(as_array(index_obj_["properties"]))
                 THEN SelectSeq(Unwrap(as_array(index_obj_["properties"])),
                                LAMBDA x : IsSome(as_object(x)))
                 ELSE <<>>
    IN [name |-> IF "name" \in DOMAIN index_obj_ THEN Unwrap(as_str(index_obj_["name"])) ELSE "",
        unique |-> IF "unique" \in DOMAIN index_obj_ THEN Unwrap(as_bool(index_obj_["unique"])) ELSE FALSE,
        properties |-> [i \in 1..Len(props) |-> index_properties(Unwrap(as_object(props[i])))]]

\* Whether building the index panics: name.as_str().unwrap(),
\* unique.as_bool().unwrap(), order.as_str().unwrap().
IndexPanics(index_value) ==
    /\ IsSome(as_object(index_value))
    /\ LET obj == Unwrap(as_object(index_value)) IN
       \/ "name" \in DOMAIN obj /\ as_str(obj["name"]) = None
       \/ "unique" \in DOMAIN obj /\ as_bool(obj["unique"]) = None
       \/ /\ "properties" \in DOMAIN obj
          /\ IsSome(as_array(obj["properties"]))
          /\ \E i \in 1..Len(Unwrap(as_array(obj["properties"]))) :
                LET x == Unwrap(as_array(obj["properties"]))[i] IN
                /\ IsSome(as_object(x))
                /\ \E k \in DOMAIN Unwrap(as_object(x)) : as_str(Unwrap(as_object(x))[k]) = None

\* document_type: built for one top-level key whose value is an object. The
\* "$comment" is read inside the branch taken when "indices" is present.
imported_document_type(doc_type_name, doc_type_obj) ==
    LET props == IF "properties" \in DOMAIN doc_type_obj /\ IsSome(as_object(doc_type_obj["properties"]))
                 THEN Unwrap(as_object(doc_type_obj["properties"]))
                 ELSE MapOf({})
        prop_names == MapKeys(DOMAIN props)
        idx == IF "indices" \in DOMAIN doc_type_obj /\ IsSome(as_array(doc_type_obj["indices"]))
               THEN SelectSeq(Unwrap(as_array(doc_type_obj["indices"])),
                              LAMBDA x : IsSome(as_object(x)))
               ELSE <<>>
    IN [DocumentTypeDefault EXCEPT
          !.name = doc_type_name,
          !.properties = [i \in 1..Len(prop_names) |->
                imported_property(prop_names[i], props[prop_names[i]], doc_type_obj)],
          !.indices = [i \in 1..Len(idx) |-> imported_index(Unwrap(as_object(idx[i])))],
          !.comment = IF "indices" \in DOMAIN doc_type_obj /\ "$comment" \in DOMAIN doc_type_obj
                      THEN Unwrap(as_str(doc_type_obj["$comment"]))
                      ELSE @]

\* Whether building the document type panics.
DocumentTypePanics(doc_type_value) ==
    /\ IsSome(as_object(doc_type_value))
    /\ LET obj == Unwrap(as_object(doc_type_value)) IN
       \/ /\ "properties" \in DOMAIN obj
          /\ IsSome(as_object(obj["properties"]))
          /\ \E k \in DOMAIN Unwrap(as_object(obj["properties"])) :
                PropertyPanics(Unwrap(as_object(obj["properties"]))[k])
       \/ /\ "indices" \in DOMAIN obj
          /\ IsSome(as_array(obj["indices"]))
          /\ \E i \in 1..Len(Unwrap(as_array(obj["indices"]))) :
                IndexPanics(Unwrap(as_array(obj["indices"]))[i])
       \/ /\ "indices" \in DOMAIN obj
          /\ "$comment" \in DOMAIN obj
          /\ as_str(obj["$comment"]) = None

\* The loop "for (doc_type_name, doc_type_value) in parsed_json" over the keys
\* in the order the HashMap yields them: the document types pushed, and
\* whether the loop panicked (what was pushed before stays pushed).
RECURSIVE ImportLoop(_, _, _)
ImportLoop(parsed, keys, pushed) ==
    IF keys = <<>> THEN [document_types |-> pushed, panicked |-> FALSE]
    ELSE LET value == parsed[Head(keys)] IN
         IF DocumentTypePanics(value) THEN [document_types |-> pushed, panicked |-> TRUE]
         ELSE IF as_object(value) = None THEN ImportLoop(parsed, Tail(keys), pushed)
         ELSE ImportLoop(parsed, Tail(keys),
                Append(pushed, imported_document_type(Head(keys), Unwrap(as_object(value)))))

\* format!("\"{}\":{}", k, v.to_string()) writes the key between quotes as it
\* is: the entry reads back as JSON only when the key holds no double quote
\* and no backslash. Among the keys of the model's inputs, these do.
NeedsEscape(key) == key \in {"\"", "\\"}

\* fn view, its first lines, on the entries parse_imported_json wrote:
\* serde_json::from_str(&new_s).unwrap() panics when the joined text is not
\* JSON.
ViewPanics(entries) == \E i \in DOMAIN entries : NeedsEscape(entries[i].key)

\* An import that pushes onto the document types the model holds instead of
\* starting from an empty Vec.
MergingImport(text, key_order) ==
    LET parsed == parsed_json(text)
        loop == ImportLoop(parsed, key_order, document_types)
    IN [json_object |-> [i \in 1..Len(key_order) |->
                            [key |-> key_order[i], value |-> parsed[key_order[i]]]],
        document_types |-> loop.document_types,
        panicked |-> loop.panicked]

\* fn parse_imported_json(&mut self), with the HashMap yielding its keys in
\* the order key_order: json_object and document_types as the call leaves
\* them, and whether it panicked.
parse_imported_json(text, key_order) ==
    LET parsed == parsed_json(text)
        loop == ImportLoop(parsed, key_order, <<>>)
    IN [json_object |-> [i \in 1..Len(key_order) |->
                            [key |-> key_order[i], value |-> parsed[key_order[i]]]],
        document_types |-> loop.document_types,
        panicked |-> loop.panicked]

----------------------------------------------------------------------------
(* The validation adapter. The validator (dpp) is outside the program: a    *)
(* run of it is an input, drawn from ValidatorRuns.                         *)

\* A ConsensusError as the adapter reads it. schema_path tells two
\* violations apart that format to the same text.
JsonSchemaViolation(summary, path, schema_path) ==
    [basic |-> TRUE, json_schema |-> TRUE, summary |-> summary,
     instance_path |-> path, schema_path |-> schema_path, display |-> "json schema error"]
OtherBasicViolation(display) ==
    [basic |-> TRUE, json_schema |-> FALSE, summary |-> "",
     instance_path |-> "", schema_path |-> "", display |-> display]
NonBasicViolation(display) ==
    [basic |-> FALSE, json_schema |-> FALSE, summary |-> "",
     instance_path |-> "", schema_path |-> "", display |-> display]

\* One run of the validator for validate(): whether factory.create (and
\* to_cleaned_object) succeeded, whether data_contract.validate returned Ok,
\* and results.errors.
ValidatorRun(created, validated, errors) ==
    [created |-> created, validated |-> validated, errors |-> errors]
NoRun == ValidatorRun(FALSE, FALSE, <<>>)
PassedRun == ValidatorRun(TRUE, TRUE, <<>>)

ValidatorErrors ==
    {<<>>,
     <<JsonSchemaViolation("bad pattern", "/a", "/properties/a")>>,
     <<JsonSchemaViolation("bad pattern", "/a", "/properties/a"),
       JsonSchemaViolation("bad pattern", "/a", "/properties/b")>>,
     <<OtherBasicViolation("invalid index")>>,
     <<NonBasicViolation("state error")>>}

ValidatorRuns ==
    {ValidatorRun(FALSE, FALSE, <<>>), ValidatorRun(TRUE, FALSE, <<>>)}
    \cup {ValidatorRun(TRUE, TRUE, errors) : errors \in ValidatorErrors}

\* The closure of filter_map: the message of one error, None for an error
\* that is not a BasicError.
FormatError(error) ==
    IF error.basic
    THEN IF error.json_schema
         THEN Some(<<"JsonSchemaError: ", error.summary, ", Path: ", error.instance_path>>)
         ELSE Some(<<error.display>>)
    ELSE None

\* The messages collected by filter_map, returned without the pass through
\* the HashSet.
CollectedMessages(errors) ==
    {[i \in 1..Len(SelectSeq(errors, LAMBDA e : IsSome(FormatError(e)))) |->
        Unwrap(FormatError(SelectSeq(errors, LAMBDA e : IsSome(FormatError(e)))[i]))]}

\* fn extract_basic_error_messages: the Vecs it may return (a HashSet
\* yields its elements in any order).
extract_basic_error_messages(errors) ==
    Orderings({Unwrap(FormatError(errors[i])) :
                  i \in {j \in 1..Len(errors) : IsSome(FormatError(errors[j]))}})

\* fn validate, for one run of the validator: whether it panics
\* (.expect("data in fixture should be correct")) and the Vecs it may return
\* (validate(..).unwrap_or_default() turns an Err into no errors).
validate(run) ==
    [panics |-> ~run.created,
     messages |-> extract_basic_error_messages(IF run.validated THEN run.errors ELSE <<>>)]

----------------------------------------------------------------------------
(* The editing session: Model::create and Model::update. *)

\* Every handler runs only while the instance is alive, uses up one message
\* of the budget and is recorded in last.
Handle(msg, run) ==
    /\ ~panicked
    /\ budget # 0
    /\ budget' = IF budget > 0 THEN budget - 1 ELSE budget
    /\ last' = [msg |-> msg, run |-> run]

\* The view renders one set of controls per element: a message carries the
\* indices of an element that exists.
HasDoc(d) == d \in 1..Len(document_types)
HasProp(d, p) == HasDoc(d) /\ p \in 1..Len(document_types[d].properties)
HasIndex(d, i) == HasDoc(d) /\ i \in 1..Len(document_types[d].indices)
HasIndexProp(d, i, k) == HasIndex(d, i) /\ k \in 1..Len(document_types[d].indices[i].properties)
\* view_recursive_property is rendered under the "Object" arm only.
HasRecProp(d, p, r) ==
    /\ HasProp(d, p)
    /\ document_types[d].properties[p].data_type = "Object"
    /\ IsSome(document_types[d].properties[p].properties)
    /\ r \in 1..Len(Unwrap(document_types[d].properties[p].properties))
\* render_additional_properties / rec_render_additional_properties show the
\* inputs of the current data type only.
PropHasType(d, p, data_type) ==
    HasProp(d, p) /\ document_types[d].properties[p].data_type = data_type
RecPropHasType(d, p, r, data_type) ==
    HasRecProp(d, p, r) /\ Unwrap(document_types[d].properties[p].properties)[r].data_type = data_type

\* fn create
create ==
    /\ document_types = <<[DocumentTypeDefault EXCEPT !.properties = <<PropertyDefault>>]>>
    /\ json_object = <<>>
    /\ imported_json = EmptyText
    /\ error_messages = <<>>

EditOnly == UNCHANGED <<json_object, imported_json, error_messages, panicked>>

\* self.document_types[d].properties[p].<field> = value
SetPropertyField(d, p, field, value) ==
    /\ Handle("Edit", NoRun)
    /\ document_types' = [document_types EXCEPT ![d].properties[p][field] = value]
    /\ EditOnly

\* if let Some(property_vec) = ...properties.as_mut() { property_vec[r].<field> = value }
SetRecPropertyField(d, p, r, field, value) ==
    /\ Handle("Edit", NoRun)
    /\ document_types' = [document_types EXCEPT ![d].properties[p].properties[1][r][field] = value]
    /\ EditOnly

AddDocumentType ==
    /\ Len(document_types) < MaxDocs
    /\ Handle("Edit", NoRun)
    /\ document_types' = Append(document_types,
            [DocumentTypeDefault EXCEPT !.properties = <<PropertyDefault>>])
    /\ EditOnly

AddProperty(index) ==
    /\ HasDoc(index)
    /\ Len(document_types[index].properties) < MaxProps
    /\ Handle("Edit", NoRun)
    /\ document_types' = [document_types EXCEPT ![index].properties = Append(@, PropertyDefault)]
    /\ EditOnly

AddIndex(index) ==
    /\ HasDoc(index)
    /\ Len(document_types[index].indices) < MaxIndices
    /\ Handle("Edit", NoRun)
    /\ document_types' = [document_types EXCEPT ![index].indices =
            Append(@, [name |-> "", unique |-> FALSE, properties |-> <<IndexPropertiesDefault>>])]
    /\ EditOnly

RemoveDocumentType(index) ==
    /\ HasDoc(index)
    /\ Handle("Edit", NoRun)
    /\ document_types' = RemoveAt(document_types, index)
    /\ EditOnly

RemoveProperty(doc_index, prop_index) ==
    /\ HasProp(doc_index, prop_index)
    /\ Handle("Edit", NoRun)
    /\ LET name == document_types[doc_index].properties[prop_index].name
           required == document_types[doc_index].required
           position == {i \in 1..Len(required) : required[i] = name}
           first == CHOOSE i \in position : \A j \in position : i <= j
       IN document_types' = [document_types EXCEPT
            ![doc_index].required = IF position # {} THEN RemoveAt(@, first) ELSE @,
            ![doc_index].properties = RemoveAt(@, prop_index)]
    /\ EditOnly

RemoveIndex(doc_index, index_index) ==
    /\ HasIndex(doc_index, index_index)
    /\ Handle("Edit", NoRun)
    /\ document_types' = [document_types EXCEPT ![doc_index].indices = RemoveAt(@, index_index)]
    /\ EditOnly

AddIndexProperty(doc_index, index_index) ==
    /\ HasIndex(doc_index, index_index)
    /\ Len(document_types[doc_index].indices[index_index].properties) < MaxIndexProps
    /\ Handle("Edit", NoRun)
    /\ document_types' = [document_types EXCEPT
            ![doc_index].indices[index_index].properties = Append(@, IndexPropertiesDefault)]
    /\ EditOnly

\* Msg::Submit with one run of the validator and one of the Vecs validate may
\* return. A panic in validate leaves what generate_json_object has written.
Submit(run, messages) ==
    /\ Handle("Submit", run)
    /\ messages \in validate(run).messages
    /\ LET generated == generate_json_object(document_types) IN
       /\ json_object' = generated.json_arr
       /\ document_types' = generated.document_types
    /\ IF validate(run).panics
       THEN /\ panicked' = TRUE
            /\ UNCHANGED <<error_messages, imported_json>>
       ELSE /\ panicked' = FALSE
            /\ error_messages' = messages
            /\ imported_json' = EmptyText

UpdateName(index, name) ==
    /\ HasDoc(index)
    /\ Handle("Edit", NoRun)
    /\ document_types' = [document_types EXCEPT ![index].name = name]
    /\ EditOnly

UpdateComment(index, comment) ==
    /\ HasDoc(index)
    /\ Handle("Edit", NoRun)
    /\ document_types' = [document_types EXCEPT ![index].comment = comment]
    /\ EditOnly

UpdatePropertyName(doc_index, prop_index, name) ==
    /\ HasProp(doc_index, prop_index)
    /\ SetPropertyField(doc_index, prop_index, "name", name)

UpdateIndexName(doc_index, index_index, name) ==
    /\ HasIndex(doc_index, index_index)
    /\ Handle("Edit", NoRun)
    /\ document_types' = [document_types EXCEPT ![doc_index].indices[index_index].name = name]
    /\ EditOnly

UpdateIndexProperty(doc_index, index_index, prop_index, prop) ==
    /\ HasIndexProp(doc_index, index_index, prop_index)
    /\ Handle("Edit", NoRun)
    /\ document_types' = [document_types EXCEPT
            ![doc_index].indices[index_index].properties[prop_index][1] = prop]
    /\ EditOnly

UpdateIndexSorting(doc_index, index_index, prop_index, sorting) ==
    /\ HasIndexProp(doc_index, index_index, prop_index)
    /\ Handle("Edit", NoRun)
    /\ document_types' = [document_types EXCEPT
            ![doc_index].indices[index_index].properties[prop_index][2] = sorting]
    /\ EditOnly

\* new_property is default_additional_properties(<the selected option>).
UpdatePropertyType(doc_index, prop_index, new_property) ==
    /\ HasProp(doc_index, prop_index)
    /\ Handle("Edit", NoRun)
    /\ document_types' = [document_types EXCEPT ![doc_index].properties[prop_index] =
            [@ EXCEPT !.data_type = new_property.data_type,
                      !.min_length = new_property.min_length,
                      !.max_length = new_property.max_length,
                      !.pattern = new_property.pattern,
                      !.format = new_property.format,
                      !.minimum = new_property.minimum,
                      !.maximum = new_property.maximum,
                      !.byte_array = new_property.byte_array,
                      !.min_items = new_property.min_items,
                      !.max_items = new_property.max_items,
                      !.min_properties = new_property.min_properties,
                      !.max_properties = new_property.max_properties]]
    /\ EditOnly

UpdateIndexUnique(doc_index, index_index, unique) ==
    /\ HasIndex(doc_index, index_index)
    /\ Handle("Edit", NoRun)
    /\ document_types' = [document_types EXCEPT ![doc_index].indices[index_index].unique = unique]
    /\ EditOnly

UpdatePropertyRequired(doc_index, prop_index, required) ==
    /\ HasProp(doc_index, prop_index)
    /\ SetPropertyField(doc_index, prop_index, "required", required)

UpdatePropertyDescription(doc_index, prop_index, description) ==
    /\ HasProp(doc_index, prop_index)
    /\ SetPropertyField(doc_index, prop_index, "description", Some(description))

UpdatePropertyComment(doc_index, prop_index, comment) ==
    /\ HasProp(doc_index, prop_index)
    /\ SetPropertyField(doc_index, prop_index, "comment", Some(comment))

(* Optional property parameters. *)

UpdateStringPropertyMinLength(doc_index, prop_index, min_length) ==
    /\ PropHasType(doc_index, prop_index, "String")
    /\ SetPropertyField(doc_index, prop_index, "min_length", Some(min_length))

UpdateStringPropertyMaxLength(doc_index, prop_index, max_length) ==
    /\ PropHasType(doc_index, prop_index, "String")
    /\ SetPropertyField(doc_index, prop_index, "max_length", Some(max_length))

UpdateStringPropertyPattern(doc_index, prop_index, pattern) ==
    /\ PropHasType(doc_index, prop_index, "String")
    /\ SetPropertyField(doc_index, prop_index, "pattern", Some(pattern))

UpdateStringPropertyFormat(doc_index, prop_index, format) ==
    /\ PropHasType(doc_index, prop_index, "String")
    /\ SetPropertyField(doc_index, prop_index, "format", Some(format))

UpdateIntegerPropertyMinimum(doc_index, prop_index, minimum) ==
    /\ PropHasType(doc_index, prop_index, "Integer")
    /\ SetPropertyField(doc_index, prop_index, "minimum", Some(minimum))

UpdateIntegerPropertyMaximum(doc_index, prop_index, maximum) ==
    /\ PropHasType(doc_index, prop_index, "Integer")
    /\ SetPropertyField(doc_index, prop_index, "maximum", Some(maximum))

UpdateArrayPropertyByteArray(doc_index, prop_index, byte_array) ==
    /\ PropHasType(doc_index, prop_index, "Array")
    /\ SetPropertyField(doc_index, prop_index, "byte_array", Some(byte_array))

UpdateArrayPropertyMinItems(doc_index, prop_index, min_items) ==
    /\ PropHasType(doc_index, prop_index, "Array")
    /\ SetPropertyField(doc_index, prop_index, "min_items", Some(min_items))

UpdateArrayPropertyMaxItems(doc_index, prop_index, max_items) ==
    /\ PropHasType(doc_index, prop_index, "Array")
    /\ SetPropertyField(doc_index, prop_index, "max_items", Some(max_items))

UpdateObjectPropertyMinProperties(doc_index, prop_index, min_properties) ==
    /\ PropHasType(doc_index, prop_index, "Object")
    /\ SetPropertyField(doc_index, prop_index, "min_properties", Some(min_properties))

UpdateObjectPropertyMaxProperties(doc_index, prop_index, max_properties) ==
    /\ PropHasType(doc_index, prop_index, "Object")
    /\ SetPropertyField(doc_index, prop_index, "max_properties", Some(max_properties))

(* Recursive properties. *)

\* The Property literal of Msg::AddRecProperty.
NewRecProperty == [PropertyDefault EXCEPT !.rec_required = Some(<<>>)]

\* The button is rendered under the "Object" arm only.
AddRecProperty(doc_index, prop_index) ==
    /\ PropHasType(doc_index, prop_index, "Object")
    /\ LET properties == document_types[doc_index].properties[prop_index].properties IN
       /\ IsSome(properties) => Len(Unwrap(properties)) < MaxRecProps
       /\ Handle("Edit", NoRun)
       /\ document_types' = [document_types EXCEPT ![doc_index].properties[prop_index].properties =
            IF IsSome(properties) THEN Some(Append(Unwrap(properties), NewRecProperty))
            ELSE Some(<<NewRecProperty>>)]
    /\ EditOnly

RemoveRecProperty(doc_index, prop_index, rec_prop_index) ==
    /\ HasRecProp(doc_index, prop_index, rec_prop_index)
    /\ Handle("Edit", NoRun)
    /\ document_types' = [document_types EXCEPT ![doc_index].properties[prop_index].properties =
            Some(RemoveAt(Unwrap(@), rec_prop_index))]
    /\ EditOnly

UpdateRecPropertyType(doc_index, prop_index, rec_prop_index, data_type) ==
    /\ HasRecProp(doc_index, prop_index, rec_prop_index)
    /\ SetRecPropertyField(doc_index, prop_index, rec_prop_index, "data_type", data_type)

UpdateRecPropertyName(doc_index, prop_index, rec_prop_index, name) ==
    /\ HasRecProp(doc_index, prop_index, rec_prop_index)
    /\ SetRecPropertyField(doc_index, prop_index, rec_prop_index, "name", name)

UpdateRecPropertyRequired(doc_index, prop_index, rec_prop_index, required) ==
    /\ HasRecProp(doc_index, prop_index, rec_prop_index)
    /\ SetRecPropertyField(doc_index, prop_index, rec_prop_index, "required", required)

UpdateRecPropertyDescription(doc_index, prop_index, rec_prop_index, description) ==
    /\ HasRecProp(doc_index, prop_index, rec_prop_index)
    /\ SetRecPropertyField(doc_index, prop_index, rec_prop_index, "description", Some(description))

UpdateRecPropertyComment(doc_index, prop_index, rec_prop_index, comment) ==
    /\ HasRecProp(doc_index, prop_index, rec_prop_index)
    /\ SetRecPropertyField(doc_index, prop_index, rec_prop_index, "comment", Some(comment))

UpdateStringRecPropertyMinLength(doc_index, prop_index, rec_prop_index, min_length) ==
    /\ RecPropHasType(doc_index, prop_index, rec_prop_index, "String")
    /\ SetRecPropertyField(doc_index, prop_index, rec_prop_index, "min_length", Some(min_length))

UpdateStringRecPropertyMaxLength(doc_index, prop_index, rec_prop_index, max_length) ==
    /\ RecPropHasType(doc_index, prop_index, rec_prop_index, "String")
    /\ SetRecPropertyField(doc_index, prop_index, rec_prop_index, "max_length", Some(max_length))

UpdateStringRecPropertyPattern(doc_index, prop_index, rec_prop_index, pattern) ==
    /\ RecPropHasType(doc_index, prop_index, rec_prop_index, "String")
    /\ SetRecPropertyField(doc_index, prop_index, rec_prop_index, "pattern", Some(pattern))

UpdateStringRecPropertyFormat(doc_index, prop_index, rec_prop_index, format) ==
    /\ RecPropHasType(doc_index, prop_index, rec_prop_index, "String")
    /\ SetRecPropertyField(doc_index, prop_index, rec_prop_index, "format", Some(format))

UpdateIntegerRecPropertyMaximum(doc_index, prop_index, rec_prop_index, maximum) ==
    /\ RecPropHasType(doc_index, prop_index, rec_prop_index, "Integer")
    /\ SetRecPropertyField(doc_index, prop_index, rec_prop_index, "maximum", Some(maximum))

UpdateIntegerRecPropertyMinimum(doc_index, prop_index, rec_prop_index, minimum) ==
    /\ RecPropHasType(doc_index, prop_index, rec_prop_index, "Integer")
    /\ SetRecPropertyField(doc_index, prop_index, rec_prop_index, "minimum", Some(minimum))

UpdateArrayRecPropertyByteArray(doc_index, prop_index, rec_prop_index, byte_array) ==
    /\ RecPropHasType(doc_index, prop_index, rec_prop_index, "Array")
    /\ SetRecPropertyField(doc_index, prop_index, rec_prop_index, "byte_array", Some(byte_array))

UpdateArrayRecPropertyMinItems(doc_index, prop_index, rec_prop_index, min_items) ==
    /\ RecPropHasType(doc_index, prop_index, rec_prop_index, "Array")
    /\ SetRecPropertyField(doc_index, prop_index, rec_prop_index, "min_items", Some(min_items))

UpdateArrayRecPropertyMaxItems(doc_index, prop_index, rec_prop_index, max_items) ==
    /\ RecPropHasType(doc_index, prop_index, rec_prop_index, "Array")
    /\ SetRecPropertyField(doc_index, prop_index, rec_prop_index, "max_items", Some(max_items))

UpdateObjectRecPropertyMinProperties(doc_index, prop_index, rec_prop_index, min_props) ==
    /\ RecPropHasType(doc_index, prop_index, rec_prop_index, "Object")
    /\ SetRecPropertyField(doc_index, prop_index, rec_prop_index, "min_properties", Some(min_props))

UpdateObjectRecPropertyMaxProperties(doc_index, prop_index, rec_prop_index, max_props) ==
    /\ RecPropHasType(doc_index, prop_index, rec_prop_index, "Object")
    /\ SetRecPropertyField(doc_index, prop_index, rec_prop_index, "max_properties", Some(max_props))

(* Import. *)

UpdateImportedJson(import) ==
    /\ Handle("UpdateImportedJson", NoRun)
    /\ imported_json' = import
    /\ UNCHANGED <<document_types, json_object, error_messages, panicked>>

\* Msg::Import, with the HashMap yielding its keys in the order key_order,
\* and the render that follows it.
Import(key_order) ==
    /\ key_order \in Orderings(DOMAIN parsed_json(imported_json))
    /\ Handle("Import", NoRun)
    /\ LET parsed == parse_imported_json(imported_json, key_order) IN
       /\ json_object' = parsed.json_object
       /\ document_types' = parsed.document_types
       /\ panicked' = (parsed.panicked \/ ViewPanics(parsed.json_object))
    /\ UNCHANGED <<imported_json, error_messages>>

Clear ==
    /\ Handle("Clear", NoRun)
    /\ json_object' = <<>>
    /\ imported_json' = EmptyText
    /\ UNCHANGED <<document_types, error_messages, panicked>>

----------------------------------------------------------------------------
(* Inputs. *)

NameInputs == {"a", "b"}      \* typed into a name box
StringInputs == {"", "x"}     \* typed into a text box (it may be cleared)
U32Inputs == {0, 1}           \* value_as_number() as u32
I32Inputs == {-1, 0, 1}       \* value_as_number() as i32
SortInputs == {"asc", "desc"} \* the two <option>s of the sorting select

\* Documents pasted into the import box.
StringSchema == JObj(MapOf({<<"type", JStr("string")>>}))

DocumentSchema(entries) ==
    JObj(MapOf({<<"type", JStr("object")>>, <<"additionalProperties", JBool(FALSE)>>} \cup entries))

\* The spec's scenario: "note" with one required string property "body".
NoteDocument ==
    JObj(MapOf({<<"note", DocumentSchema(
        {<<"properties", JObj(MapOf({<<"body", StringSchema>>}))>>,
         <<"required", JStrings(<<"body">>)>>})>>}))

\* A "$comment" and no "indices".
CommentedDocument ==
    JObj(MapOf({<<"a", DocumentSchema(
        {<<"properties", JObj(MapOf({<<"body", StringSchema>>}))>>,
         <<"$comment", JStr("x")>>})>>}))

\* A "$comment" beside "indices"; the second index property has two keys.
IndexedDocument ==
    JObj(MapOf({<<"a", DocumentSchema(
        {<<"properties", JObj(MapOf({<<"body", StringSchema>>}))>>,
         <<"indices", JArr(<<JObj(MapOf(
              {<<"name", JStr("x")>>,
               <<"properties", JArr(<<JObj(MapOf({<<"body", JStr("asc")>>})),
                                      JObj(MapOf({<<"a", JStr("desc")>>, <<"b", JStr("asc")>>}))>>)>>,
               <<"unique", JBool(TRUE)>>}))>>)>>,
         <<"$comment", JStr("x")>>})>>}))

\* A property whose "type" is none of the six names.
UnknownTypeDocument ==
    JObj(MapOf({<<"a", DocumentSchema(
        {<<"properties", JObj(MapOf({<<"body", JObj(MapOf({<<"type", JStr("float")>>}))>>}))>>})>>}))

\* The same one level down.
NestedUnknownTypeDocument ==
    JObj(MapOf({<<"a", DocumentSchema(
        {<<"properties", JObj(MapOf({<<"inner", JObj(MapOf(
            {<<"type", JStr("object")>>,
             <<"properties", JObj(MapOf({<<"body", JObj(MapOf({<<"type", JStr("float")>>}))>>}))>>}))>>}))>>})>>}))

\* An Object property with a child of each type that has inputs of its own;
\* the Object child has a child and a "required" of its own.
NestedDocument ==
    JObj(MapOf({<<"note", DocumentSchema(
        {<<"properties", JObj(MapOf({<<"inner", JObj(MapOf(
            {<<"type", JStr("object")>>,
             <<"properties", JObj(MapOf(
                {<<"a", StringSchema>>,
                 <<"b", JObj(MapOf({<<"type", JStr("integer")>>}))>>,
                 <<"body", JObj(MapOf({<<"type", JStr("array")>>}))>>,
                 <<"other", JObj(MapOf(
                    {<<"type", JStr("object")>>,
                     <<"properties", JObj(MapOf({<<"a", StringSchema>>}))>>,
                     <<"required", JStrings(<<"a">>)>>,
                     <<"additionalProperties", JBool(FALSE)>>}))>>}))>>,
             <<"required", JStrings(<<"a">>)>>,
             <<"additionalProperties", JBool(FALSE)>>}))>>}))>>})>>}))

\* Two "required" arrays: the document type's lists "b" and "body", the
\* Object property's lists "a". "b" is a child of the Object property and
\* "a" is not a property of the document type.
ScopedRequiredDocument ==
    JObj(MapOf({<<"note", DocumentSchema(
        {<<"properties", JObj(MapOf(
            {<<"body", StringSchema>>,
             <<"inner", JObj(MapOf(
                {<<"type", JStr("object")>>,
                 <<"properties", JObj(MapOf(
                    {<<"a", StringSchema>>,
                     <<"b", JObj(MapOf({<<"type", JStr("integer")>>}))>>}))>>,
                 <<"required", JStrings(<<"a">>)>>,
                 <<"additionalProperties", JBool(FALSE)>>}))>>}))>>,
         <<"required", JStrings(<<"b", "body">>)>>})>>}))

\* A top-level key whose value is not an object, beside a document type.
ScalarEntryDocument ==
    JObj(MapOf({<<"a", JNum(1)>>,
                <<"note", DocumentSchema({<<"properties", JObj(MapOf({<<"body", StringSchema>>}))>>})>>}))

\* A document type whose name is one double quote: the text {"\"":{..}}.
QuotedKeyDocument ==
    JObj(MapOf({<<"\"", DocumentSchema({<<"properties", JObj(MapOf({<<"body", StringSchema>>}))>>})>>}))

\* Two document types.
TwoDocuments ==
    JObj(MapOf({<<"a", DocumentSchema({<<"properties", JObj(MapOf({<<"body", StringSchema>>}))>>})>>,
                <<"b", DocumentSchema({<<"properties", JObj(MapOf({}))>>})>>}))

ImportTexts ==
    {EmptyText, GarbageText, TextOf(JArr(<<>>)),
     TextOf(NoteDocument), TextOf(CommentedDocument), TextOf(IndexedDocument),
     TextOf(UnknownTypeDocument), TextOf(NestedUnknownTypeDocument),
     TextOf(NestedDocument), TextOf(ScopedRequiredDocument), TextOf(TwoDocuments)}

\* The contract shown in the output box, copied.
OutputTexts == IF json_object = <<>> THEN {} ELSE {TextOf(JoinedObject(json_object))}

----------------------------------------------------------------------------
(* Spec: the whole editor, every message of Msg, for sessions of at most   *)
(* MaxSteps messages.                                                       *)

Init ==
    /\ create
    /\ panicked = FALSE
    /\ last = [msg |-> "Create", run |-> NoRun]
    /\ budget = MaxSteps

DocIndices == DOMAIN document_types
PropIndices(d) == DOMAIN document_types[d].properties
IndexIndices(d) == DOMAIN document_types[d].indices
IndexPropIndices(d, i) == DOMAIN document_types[d].indices[i].properties
RecPropIndices(d, p) ==
    IF IsSome(document_types[d].properties[p].properties)
    THEN DOMAIN Unwrap(document_types[d].properties[p].properties)
    ELSE {}

General ==
    \/ AddDocumentType
    \/ \E d \in DocIndices : RemoveDocumentType(d)
    \/ \E d \in DocIndices : AddProperty(d)
    \/ \E d \in DocIndices : \E p \in PropIndices(d) : RemoveProperty(d, p)
    \/ \E d \in DocIndices : AddIndex(d)
    \/ \E d \in DocIndices : \E i \in IndexIndices(d) : RemoveIndex(d, i)
    \/ \E d \in DocIndices : \E i \in IndexIndices(d) : AddIndexProperty(d, i)
    \/ \E run \in ValidatorRuns : \E messages \in validate(run).messages : Submit(run, messages)
    \/ \E d \in DocIndices : \E name \in NameInputs : UpdateName(d, name)
    \/ \E d \in DocIndices : \E comment \in StringInputs : UpdateComment(d, comment)
    \/ \E d \in DocIndices : \E p \in PropIndices(d) : \E name \in NameInputs :
            UpdatePropertyName(d, p, name)
    \/ \E d \in DocIndices : \E i \in IndexIndices(d) : \E name \in NameInputs :
            UpdateIndexName(d, i, name)
    \/ \E d \in DocIndices : \E i \in IndexIndices(d) : \E k \in IndexPropIndices(d, i) :
            \E prop \in NameInputs : UpdateIndexProperty(d, i, k, prop)
    \/ \E d \in DocIndices : \E i \in IndexIndices(d) : \E k \in IndexPropIndices(d, i) :
            \E sorting \in SortInputs : UpdateIndexSorting(d, i, k, sorting)
    \/ \E d \in DocIndices : \E p \in PropIndices(d) : \E data_type \in DataTypes :
            UpdatePropertyType(d, p, default_additional_properties(data_type))
    \/ \E d \in DocIndices : \E i \in IndexIndices(d) : \E unique \in BOOLEAN :
            UpdateIndexUnique(d, i, unique)
    \/ \E d \in DocIndices : \E p \in PropIndices(d) : \E required \in BOOLEAN :
            UpdatePropertyRequired(d, p, required)
    \/ \E d \in DocIndices : \E p \in PropIndices(d) : \E description \in StringInputs :
            UpdatePropertyDescription(d, p, description)
    \/ \E d \in DocIndices : \E p \in PropIndices(d) : \E comment \in StringInputs :
            UpdatePropertyComment(d, p, comment)

OptionalParameters ==
    \/ \E d \in DocIndices : \E p \in PropIndices(d) : \E v \in U32Inputs :
            UpdateStringPropertyMinLength(d, p, v)
    \/ \E d \in DocIndices : \E p \in PropIndices(d) : \E v \in U32Inputs :
            UpdateStringPropertyMaxLength(d, p, v)
    \/ \E d \in DocIndices : \E p \in PropIndices(d) : \E v \in StringInputs :
            UpdateStringPropertyPattern(d, p, v)
    \/ \E d \in DocIndices : \E p \in PropIndices(d) : \E v \in StringInputs :
            UpdateStringPropertyFormat(d, p, v)
    \/ \E d \in DocIndices : \E p \in PropIndices(d) : \E v \in I32Inputs :
            UpdateIntegerPropertyMinimum(d, p, v)
    \/ \E d \in DocIndices : \E p \in PropIndices(d) : \E v \in I32Inputs :
            UpdateIntegerPropertyMaximum(d, p, v)
    \/ \E d \in DocIndices : \E p \in PropIndices(d) : \E v \in BOOLEAN :
            UpdateArrayPropertyByteArray(d, p, v)
    \/ \E d \in DocIndices : \E p \in PropIndices(d) : \E v \in U32Inputs :
            UpdateArrayPropertyMinItems(d, p, v)
    \/ \E d \in DocIndices : \E p \in PropIndices(d) : \E v \in U32Inputs :
            UpdateArrayPropertyMaxItems(d, p, v)
    \/ \E d \in DocIndices : \E p \in PropIndices(d) : \E v \in U32Inputs :
            UpdateObjectPropertyMinProperties(d, p, v)
    \/ \E d \in DocIndices : \E p \in PropIndices(d) : \E v \in U32Inputs :
            UpdateObjectPropertyMaxProperties(d, p, v)

RecursiveProperties ==
    \/ \E d \in DocIndices : \E p \in PropIndices(d) : AddRecProperty(d, p)
    \/ \E d \in DocIndices : \E p \in PropIndices(d) : \E r \in RecPropIndices(d, p) :
            RemoveRecProperty(d, p, r)
    \/ \E d \in DocIndices : \E p \in PropIndices(d) : \E r \in RecPropIndices(d, p) :
            \E v \in DataTypes : UpdateRecPropertyType(d, p, r, v)
    \/ \E d \in DocIndices : \E p \in PropIndices(d) : \E r \in RecPropIndices(d, p) :
            \E v \in NameInputs : UpdateRecPropertyName(d, p, r, v)
    \/ \E d \in DocIndices : \E p \in PropIndices(d) : \E r \in RecPropIndices(d, p) :
            \E v \in BOOLEAN : UpdateRecPropertyRequired(d, p, r, v)
    \/ \E d \in DocIndices : \E p \in PropIndices(d) : \E r \in RecPropIndices(d, p) :
            \E v \in StringInputs : UpdateRecPropertyDescription(d, p, r, v)
    \/ \E d \in DocIndices : \E p \in PropIndices(d) : \E r \in RecPropIndices(d, p) :
            \E v \in StringInputs : UpdateRecPropertyComment(d, p, r, v)
    \/ \E d \in DocIndices : \E p \in PropIndices(d) : \E r \in RecPropIndices(d, p) :
            \E v \in U32Inputs : UpdateStringRecPropertyMinLength(d, p, r, v)
    \/ \E d \in DocIndices : \E p \in PropIndices(d) : \E r \in RecPropIndices(d, p) :
            \E v \in U32Inputs : UpdateStringRecPropertyMaxLength(d, p, r, v)
    \/ \E d \in DocIndices : \E p \in PropIndices(d) : \E r \in RecPropIndices(d, p) :
            \E v \in StringInputs : UpdateStringRecPropertyPattern(d, p, r, v)
    \/ \E d \in DocIndices : \E p \in PropIndices(d) : \E r \in RecPropIndices(d, p) :
            \E v \in StringInputs : UpdateStringRecPropertyFormat(d, p, r, v)
    \/ \E d \in DocIndices : \E p \in PropIndices(d) : \E r \in RecPropIndices(d, p) :
            \E v \in I32Inputs : UpdateIntegerRecPropertyMaximum(d, p, r, v)
    \/ \E d \in DocIndices : \E p \in PropIndices(d) : \E r \in RecPropIndices(d, p) :
            \E v \in I32Inputs : UpdateIntegerRecPropertyMinimum(d, p, r, v)
    \/ \E d \in DocIndices : \E p \in PropIndices(d) : \E r \in RecPropIndices(d, p) :
            \E v \in BOOLEAN : UpdateArrayRecPropertyByteArray(d, p, r, v)
    \/ \E d \in DocIndices : \E p \in PropIndices(d) : \E r \in RecPropIndices(d, p) :
            \E v \in U32Inputs : UpdateArrayRecPropertyMinItems(d, p, r, v)
    \/ \E d \in DocIndices : \E p \in PropIndices(d) : \E r \in RecPropIndices(d, p) :
            \E v \in U32Inputs : UpdateArrayRecPropertyMaxItems(d, p, r, v)
    \/ \E d \in DocIndices : \E p \in PropIndices(d) : \E r \in RecPropIndices(d, p) :
            \E v \in U32Inputs : UpdateObjectRecPropertyMinProperties(d, p, r, v)
    \/ \E d \in DocIndices : \E p \in PropIndices(d) : \E r \in RecPropIndices(d, p) :
            \E v \in U32Inputs : UpdateObjectRecPropertyMaxProperties(d, p, r, v)

Importing ==
    \/ \E import \in ImportTexts : UpdateImportedJson(import)
    \/ \E import \in OutputTexts : UpdateImportedJson(import)
    \/ UpdateImportedJson(TextOf(ScalarEntryDocument))
    \/ UpdateImportedJson(TextOf(QuotedKeyDocument))
    \/ \E key_order \in Orderings(DOMAIN parsed_json(imported_json)) : Import(key_order)
    \/ Clear

Next == General \/ OptionalParameters \/ RecursiveProperties \/ Importing

Spec == Init /\ [][Next]_vars

----------------------------------------------------------------------------
(* SpecRequired: one document type, the messages that bear on its required *)
(* list (AddProperty, RemoveProperty, UpdatePropertyName,                   *)
(* UpdatePropertyRequired, Submit, Import), for sessions of at most         *)
(* MaxRequiredSteps messages.                                               *)

InitRequired ==
    /\ create
    /\ panicked = FALSE
    /\ last = [msg |-> "Create", run |-> NoRun]
    /\ budget = MaxRequiredSteps

NextRequired ==
    \/ \E d \in DocIndices : AddProperty(d)
    \/ \E d \in DocIndices : \E p \in PropIndices(d) : RemoveProperty(d, p)
    \/ \E d \in DocIndices : \E p \in PropIndices(d) : \E name \in NameInputs :
            UpdatePropertyName(d, p, name)
    \/ \E d \in DocIndices : \E p \in PropIndices(d) : \E required \in BOOLEAN :
            UpdatePropertyRequired(d, p, required)
    \/ Submit(PassedRun, <<>>)
    \/ \E import \in {TextOf(NoteDocument)} \cup OutputTexts : UpdateImportedJson(import)
    \/ \E key_order \in Orderings(DOMAIN parsed_json(imported_json)) : Import(key_order)

SpecRequired == InitRequired /\ [][NextRequired]_vars

----------------------------------------------------------------------------
(* SpecNested: one property, the messages that bear on the required list of *)
(* an Object property's children (UpdatePropertyType, AddRecProperty,       *)
(* RemoveRecProperty, UpdateRecPropertyName, UpdateRecPropertyRequired,     *)
(* Submit), for sessions of at most MaxNestedSteps messages.                *)

InitNested ==
    /\ create
    /\ panicked = FALSE
    /\ last = [msg |-> "Create", run |-> NoRun]
    /\ budget = MaxNestedSteps

NextNested ==
    \/ \E d \in DocIndices : \E p \in PropIndices(d) : \E data_type \in {"String", "Object"} :
            UpdatePropertyType(d, p, default_additional_properties(data_type))
    \/ \E d \in DocIndices : \E p \in PropIndices(d) : AddRecProperty(d, p)
    \/ \E d \in DocIndices : \E p \in PropIndices(d) : \E r \in RecPropIndices(d, p) :
            RemoveRecProperty(d, p, r)
    \/ \E d \in DocIndices : \E p \in PropIndices(d) : \E r \in RecPropIndices(d, p) :
            \E name \in NameInputs : UpdateRecPropertyName(d, p, r, name)
    \/ \E d \in DocIndices : \E p \in PropIndices(d) : \E r \in RecPropIndices(d, p) :
            \E required \in BOOLEAN : UpdateRecPropertyRequired(d, p, r, required)
    \/ Submit(PassedRun, <<>>)

SpecNested == InitNested /\ [][NextNested]_vars

----------------------------------------------------------------------------
(* SpecSets: the messages of SpecRequired and of SpecNested together, for   *)
(* sessions of at most MaxSetSteps messages: both required lists of one     *)
(* document type under every interleaving of edits, compiles and imports.   *)

InitSets ==
    /\ create
    /\ panicked = FALSE
    /\ last = [msg |-> "Create", run |-> NoRun]
    /\ budget = MaxSetSteps

NextSets == NextRequired \/ NextNested

SpecSets == InitSets /\ [][NextSets]_vars

----------------------------------------------------------------------------
(* SpecCompile: the compiler and the importer applied to trees the editor  *)
(* builds. Init draws the tree: one document type "note" that has not been  *)
(* compiled yet, holding either one property "body" with the inputs of its  *)
(* data type set (and, for an Object, up to two children), or up to         *)
(* MaxProps properties that differ in name and required flag only.         *)

OptionOf(S) == {None} \cup {Some(x) : x \in S}

\* A child as AddRecProperty and the UpdateRec* messages of its data type leave it.
ChildDraws(name) ==
    LET base == [NewRecProperty EXCEPT !.name = name] IN
    {[base EXCEPT !.required = r, !.data_type = "String", !.min_length = lo, !.max_length = hi] :
        r \in BOOLEAN, lo \in OptionOf(U32Inputs), hi \in OptionOf(U32Inputs)}
    \cup {[base EXCEPT !.required = r, !.data_type = "Integer", !.minimum = lo, !.maximum = hi] :
        r \in BOOLEAN, lo \in OptionOf(I32Inputs), hi \in OptionOf(I32Inputs)}
    \cup {[base EXCEPT !.required = r, !.data_type = "Array", !.min_items = lo, !.max_items = hi] :
        r \in BOOLEAN, lo \in OptionOf(U32Inputs), hi \in OptionOf(U32Inputs)}
    \cup {[base EXCEPT !.required = r, !.data_type = "Array", !.byte_array = Some(bytes)] :
        r \in BOOLEAN, bytes \in BOOLEAN}
    \cup {[base EXCEPT !.required = r, !.data_type = data_type] :
        r \in BOOLEAN, data_type \in {"Number", "Boolean"}}
    \cup {[base EXCEPT !.required = r, !.data_type = "Object", !.min_properties = lo, !.max_properties = hi] :
        r \in BOOLEAN, lo \in OptionOf(U32Inputs), hi \in OptionOf(U32Inputs)}

SecondChildDraws ==
    {[NewRecProperty EXCEPT !.name = name, !.required = r] : name \in NameInputs, r \in BOOLEAN}

\* Property.properties of an Object property: never added to, emptied again,
\* one child, two children.
ChildrenDraws ==
    {None, Some(<<>>)}
    \cup {Some(<<c>>) : c \in ChildDraws("a")}
    \cup {Some(<<c, d>>) : c \in ChildDraws("a"), d \in SecondChildDraws}

\* The property "body" as the messages of its data type leave it.
PropertyDraws ==
    LET body == [PropertyDefault EXCEPT !.name = "body"]
        described == {[body EXCEPT !.required = r, !.description = dsc, !.comment = c] :
                        r \in BOOLEAN, dsc \in OptionOf(StringInputs), c \in OptionOf(StringInputs)}
        flagged == {[body EXCEPT !.required = r] : r \in BOOLEAN}
    IN  {[b EXCEPT !.data_type = "String", !.min_length = lo, !.max_length = hi,
                   !.pattern = pat, !.format = fmt] :
            b \in described, lo \in OptionOf(U32Inputs), hi \in OptionOf(U32Inputs),
            pat \in OptionOf(StringInputs), fmt \in OptionOf(StringInputs)}
        \cup {[b EXCEPT !.data_type = "Integer", !.minimum = lo, !.maximum = hi] :
            b \in described, lo \in OptionOf(I32Inputs), hi \in OptionOf(I32Inputs)}
        \cup {[b EXCEPT !.data_type = "Array", !.byte_array = bytes, !.min_items = lo, !.max_items = hi] :
            b \in described, bytes \in OptionOf(BOOLEAN),
            lo \in OptionOf(U32Inputs), hi \in OptionOf(U32Inputs)}
        \cup {[b EXCEPT !.data_type = data_type] : b \in described, data_type \in {"Number", "Boolean"}}
        \cup {[b EXCEPT !.data_type = "Object", !.min_properties = lo, !.max_properties = hi,
                        !.properties = children] :
            b \in flagged, lo \in OptionOf(U32Inputs), hi \in OptionOf(U32Inputs),
            children \in {None, Some(<<>>)}}
        \cup {[b EXCEPT !.data_type = "Object", !.properties = children] :
            b \in flagged, children \in ChildrenDraws}

\* Up to MaxProps properties that differ in name and required flag only.
FlagDraws ==
    UNION {[1..n -> {[PropertyDefault EXCEPT !.name = name, !.required = r] :
                        name \in NameInputs, r \in BOOLEAN}] : n \in 2..MaxProps}

\* The index AddIndex, UpdateIndexName, UpdateIndexProperty and UpdateIndexUnique leave.
IndexDraw(unique) == [name |-> "x", properties |-> <<<<"body", "asc">>>>, unique |-> unique]

DocumentTypeDraws ==
    {[DocumentTypeDefault EXCEPT !.name = "note", !.properties = <<prop>>,
                                 !.comment = about[1], !.indices = about[2]] :
        prop \in PropertyDraws,
        about \in {<<"", <<>>>>, <<"x", <<>>>>, <<"x", <<IndexDraw(TRUE)>>>>, <<"", <<IndexDraw(FALSE)>>>>}}
    \cup {[DocumentTypeDefault EXCEPT !.name = "note", !.properties = props] : props \in FlagDraws}

InitCompile ==
    /\ document_types \in {<<doc_type>> : doc_type \in DocumentTypeDraws}
    /\ json_object = <<>>
    /\ imported_json = EmptyText
    /\ error_messages = <<>>
    /\ panicked = FALSE
    /\ last = [msg |-> "Edit", run |-> NoRun]
    /\ budget = -1

NextCompile ==
    \/ Submit(PassedRun, <<>>)
    \/ \E import \in OutputTexts : UpdateImportedJson(import)
    \/ \E key_order \in Orderings(DOMAIN parsed_json(imported_json)) : Import(key_order)

SpecCompile == InitCompile /\ [][NextCompile]_vars

----------------------------------------------------------------------------
(* SpecDeep: the compiler applied to trees three levels deep. Property      *)
(* owns a Vec of Property, so a child may hold children of its own; no      *)
(* message of the editor adds one and the importer keeps none, so Init      *)
(* draws these trees as values of the type: one Object property "inner"     *)
(* with one Object child "other" that holds up to two children.             *)

GrandchildDraws ==
    {[NewRecProperty EXCEPT !.name = name, !.required = r, !.data_type = data_type] :
        name \in NameInputs, r \in BOOLEAN, data_type \in DataTypes}

DeepChildDraws ==
    {[NewRecProperty EXCEPT !.name = "other", !.required = r, !.data_type = "Object",
                            !.properties = grandchildren] :
        r \in BOOLEAN,
        grandchildren \in {Some(<<g>>) : g \in GrandchildDraws}
                          \cup {Some(<<g, h>>) : g \in GrandchildDraws, h \in GrandchildDraws}}

InitDeep ==
    /\ document_types \in
        {<<[DocumentTypeDefault EXCEPT !.name = "note", !.properties =
              <<[PropertyDefault EXCEPT !.name = "inner", !.data_type = "Object",
                                        !.properties = Some(<<child>>)]>>]>> :
            child \in DeepChildDraws}
    /\ json_object = <<>>
    /\ imported_json = EmptyText
    /\ error_messages = <<>>
    /\ panicked = FALSE
    /\ last = [msg |-> "Edit", run |-> NoRun]
    /\ budget = -1

NextDeep == Submit(PassedRun, <<>>)

SpecDeep == InitDeep /\ [][NextDeep]_vars

----------------------------------------------------------------------------
(* SpecIndex: the compiler and the importer applied to the indices the     *)
(* editor builds. Init draws the document type "note" with the property    *)
(* "body" and one index as AddIndex, AddIndexProperty and the UpdateIndex* *)
(* messages leave it (up to MaxIndexProps properties), alone or followed   *)
(* by a second index as AddIndex leaves it.                                *)

\* An index property: UpdateIndexProperty and UpdateIndexSorting on the default.
IndexPropertiesDraws == ({""} \cup NameInputs) \X SortInputs

IndexDraws ==
    {[name |-> name, unique |-> unique, properties |-> properties] :
        name \in {""} \cup NameInputs,
        unique \in BOOLEAN,
        properties \in UNION {[1..n -> IndexPropertiesDraws] : n \in 1..MaxIndexProps}}

\* Msg::AddIndex: the index it pushes.
NewIndex == [name |-> "", unique |-> FALSE, properties |-> <<IndexPropertiesDefault>>]

IndicesDraws == {<<index>> : index \in IndexDraws} \cup {<<index, NewIndex>> : index \in IndexDraws}

InitIndex ==
    /\ document_types \in
          {<<[DocumentTypeDefault EXCEPT
                 !.name = "note",
                 !.properties = <<[PropertyDefault EXCEPT !.name = "body"]>>,
                 !.indices = indices]>> : indices \in IndicesDraws}
    /\ json_object = <<>>
    /\ imported_json = EmptyText
    /\ error_messages = <<>>
    /\ panicked = FALSE
    /\ last = [msg |-> "Edit", run |-> NoRun]
    /\ budget = -1

NextIndex ==
    \/ Submit(PassedRun, <<>>)
    \/ \E import \in OutputTexts : UpdateImportedJson(import)
    \/ \E key_order \in Orderings(DOMAIN parsed_json(imported_json)) : Import(key_order)

SpecIndex == InitIndex /\ [][NextIndex]_vars

----------------------------------------------------------------------------
(* Claims. *)

\* The names of the properties of a list whose required flag is true.
RequiredNames(props) == {props[i].name : i \in {j \in 1..Len(props) : props[j].required}}

\* The names a compiled object lists under "required" (none when the key is absent).
EmittedRequired(obj) ==
    IF "required" \in DOMAIN obj
    THEN {obj["required"].v[i].v : i \in 1..Len(obj["required"].v)}
    ELSE {}

\* The children of a property (none when properties is None).
Children(prop) == IF IsSome(prop.properties) THEN Unwrap(prop.properties) ELSE <<>>

\* The object compiled for document type d, and for its property named name.
EmittedDocument(d) == json_object[d].value.v
EmittedProperty(d, name) == EmittedDocument(d)["properties"].v[name].v

\* No two properties of the list have the same name.
DistinctNames(props) == \A i, j \in 1..Len(props) : props[i].name = props[j].name => i = j

\* C1: after any sequence of AddProperty, RemoveProperty, UpdatePropertyName,
\* UpdatePropertyRequired and Import followed by a compile (Submit), the
\* required list of a document type (here: one whose properties have distinct
\* names), and the "required" array of its compiled output, is exactly the set
\* of names of its top-level properties whose required flag is true.
RequiredListMatchesFlags ==
    last.msg = "Submit" =>
        \A d \in DocIndices :
            DistinctNames(document_types[d].properties) =>
                /\ ToSet(document_types[d].required) = RequiredNames(document_types[d].properties)
                /\ EmittedRequired(EmittedDocument(d)) = RequiredNames(document_types[d].properties)

\* C2: after any sequence of AddRecProperty, RemoveRecProperty,
\* UpdateRecPropertyName and UpdateRecPropertyRequired followed by a compile
\* (Submit), the rec_required of an Object property (here: one whose children
\* have distinct names), and the nested "required" array emitted for it, is
\* exactly the set of names of its direct children whose required flag is true.
NestedRequiredMatchesFlags ==
    last.msg = "Submit" =>
        \A d \in DocIndices : \A p \in PropIndices(d) :
            LET prop == document_types[d].properties[p] IN
            (/\ prop.data_type = "Object"
             /\ DistinctNames(document_types[d].properties)
             /\ DistinctNames(Children(prop))) =>
                /\ ToSet(IF IsSome(prop.rec_required) THEN Unwrap(prop.rec_required) ELSE <<>>)
                        = RequiredNames(Children(prop))
                /\ EmittedRequired(EmittedProperty(d, prop.name)) = RequiredNames(Children(prop))

\* C4: an Import of a text that does not parse as a JSON mapping leaves the
\* document types as they were: it does not replace them by an empty model.
MalformedImportKeepsModel ==
    [][(last'.msg = "Import" /\ ~ParsesAsMapping(imported_json))
            => document_types' = document_types]_vars

\* A property object whose "type" is a string that is none of the six names.
UnknownType(value) ==
    /\ IsSome(as_object(value))
    /\ "type" \in DOMAIN value.v
    /\ IsSome(as_str(value.v["type"]))
    /\ Unwrap(as_str(value.v["type"])) \notin TypeNames

\* The property objects of an object's "properties".
PropertyObjects(value) ==
    IF IsSome(as_object(value)) /\ "properties" \in DOMAIN value.v
            /\ IsSome(as_object(value.v["properties"]))
    THEN {value.v["properties"].v[k] : k \in DOMAIN value.v["properties"].v}
    ELSE {}

\* Some property of the document, top-level or nested, has an unknown type.
HasUnknownType(text) ==
    /\ ParsesAsMapping(text)
    /\ \E name \in DOMAIN parsed_json(text) :
        \E prop \in PropertyObjects(parsed_json(text)[name]) :
            UnknownType(prop) \/ \E nested \in PropertyObjects(prop) : UnknownType(nested)

\* C5: an Import of a document in which some property, top-level or nested,
\* has a "type" that is none of the six known names does not abort the program.
UnknownTypeImportDoesNotAbort ==
    (last.msg = "Import" /\ HasUnknownType(imported_json)) => ~panicked

\* C6: after an Import, every document type whose object carries a "$comment"
\* has that value as its comment, whether or not the object has "indices".
ImportKeepsComment ==
    (last.msg = "Import" /\ ~panicked) =>
        \A d \in DocIndices :
            LET obj == parsed_json(imported_json)[document_types[d].name].v IN
            ("$comment" \in DOMAIN obj /\ IsSome(as_str(obj["$comment"]))) =>
                document_types[d].comment = Unwrap(as_str(obj["$comment"]))

\* What the claims compare of a property: its name, data type, required flag
\* and constraint fields.
Scalars(prop) ==
    [name |-> prop.name, data_type |-> prop.data_type, required |-> prop.required,
     description |-> prop.description, comment |-> prop.comment,
     min_length |-> prop.min_length, max_length |-> prop.max_length,
     pattern |-> prop.pattern, format |-> prop.format,
     minimum |-> prop.minimum, maximum |-> prop.maximum,
     byte_array |-> prop.byte_array, min_items |-> prop.min_items, max_items |-> prop.max_items,
     min_properties |-> prop.min_properties, max_properties |-> prop.max_properties]

\* A collection of document types, ordering of document types and properties aside.
PropertyTree(prop) ==
    [scalars |-> Scalars(prop), children |-> {Scalars(c) : c \in ToSet(Children(prop))}]
DocumentTree(doc_type) ==
    [name |-> doc_type.name, comment |-> doc_type.comment, indices |-> doc_type.indices,
     properties |-> {PropertyTree(prop) : prop \in ToSet(doc_type.properties)}]
Tree(doc_types) == {DocumentTree(doc_types[d]) : d \in DOMAIN doc_types}

StringFields == {"description", "comment", "pattern", "format"}
NumericFields ==
    {<<"min_length", "minLength">>, <<"max_length", "maxLength">>,
     <<"minimum", "minimum">>, <<"maximum", "maximum">>,
     <<"min_items", "minItems">>, <<"max_items", "maxItems">>,
     <<"min_properties", "minProperties">>, <<"max_properties", "maxProperties">>}

\* Every optional field of the property that is set has a non-default value.
NonDefault(prop) ==
    /\ \A f \in StringFields : prop[f] # Some("")
    /\ \A f \in NumericFields : prop[f[1]] # Some(0)

\* The trees of the round trip: names distinct, a comment and an index on every
\* document type, children under Object properties only (and no grandchildren),
\* every optional field non-default.
RoundTripInput(doc_types) ==
    /\ DistinctNames(doc_types)
    /\ \A d \in DOMAIN doc_types :
        /\ doc_types[d].comment # ""
        /\ doc_types[d].indices # <<>>
        /\ DistinctNames(doc_types[d].properties)
        /\ \A p \in DOMAIN doc_types[d].properties :
            LET prop == doc_types[d].properties[p] IN
            /\ NonDefault(prop)
            /\ IsSome(prop.properties) => prop.data_type = "Object"
            /\ DistinctNames(Children(prop))
            /\ \A c \in DOMAIN Children(prop) :
                NonDefault(Children(prop)[c]) /\ Children(prop)[c].properties = None

\* The text of the contract compiled from doc_types.
CompiledText(doc_types) == TextOf(JoinedObject(generate_json_object(doc_types).json_arr))

\* C3: importing the output of compile reproduces the tree: an Import of the
\* text compiled from the document types in the editor (optional fields all
\* non-default) leaves the same document types, with the same properties,
\* children, indices and comment.
RoundTrip ==
    [][(/\ last'.msg = "Import"
        /\ RoundTripInput(document_types)
        /\ imported_json = CompiledText(document_types))
            => (~panicked' /\ Tree(document_types') = Tree(document_types))]_vars

\* The required sets of a collection of document types.
NestedRequiredSet(prop) ==
    ToSet(IF IsSome(prop.rec_required) THEN Unwrap(prop.rec_required) ELSE <<>>)
RequiredSets(doc_types) ==
    [d \in DOMAIN doc_types |->
        [top |-> ToSet(doc_types[d].required),
         nested |-> [p \in DOMAIN doc_types[d].properties |->
                        NestedRequiredSet(doc_types[d].properties[p])]]]

\* C7: compile is idempotent: a Submit that follows a Submit with no other
\* message in between yields the same output and leaves every required set
\* as the first one left it.
CompileIsIdempotent ==
    [][(last.msg = "Submit" /\ last'.msg = "Submit")
            => (/\ json_object' = json_object
                /\ RequiredSets(document_types') = RequiredSets(document_types))]_vars

\* The key of every numeric constraint is in the compiled object, with the
\* field's value, exactly when the field is set and not zero.
EmitsNumericConstraints(prop, obj) ==
    \A f \in NumericFields :
        /\ (f[2] \in DOMAIN obj) <=> (IsSome(prop[f[1]]) /\ Unwrap(prop[f[1]]) # 0)
        /\ (f[2] \in DOMAIN obj /\ IsSome(prop[f[1]])) => obj[f[2]] = JNum(Unwrap(prop[f[1]]))

\* C8: compile emits each optional numeric constraint of a property, top-level
\* or nested, with its value if and only if the field is present and not zero
\* (a present negative minimum or maximum is emitted).
NumericConstraintsEmitted ==
    last.msg = "Submit" =>
        \A d \in DocIndices :
            DistinctNames(document_types[d].properties) =>
                \A p \in PropIndices(d) :
                    LET prop == document_types[d].properties[p]
                        obj == EmittedProperty(d, prop.name)
                    IN /\ EmitsNumericConstraints(prop, obj)
                       /\ (prop.data_type = "Object" /\ DistinctNames(Children(prop))) =>
                            \A c \in DOMAIN Children(prop) :
                                EmitsNumericConstraints(Children(prop)[c],
                                    obj["properties"].v[Children(prop)[c].name].v)

\* The property with min_length unset where it is Some(0) and every optional
\* string field unset where it is the empty string.
UnsetDefaults(prop) ==
    [prop EXCEPT !.min_length = IF @ = Some(0) THEN None ELSE @,
                 !.description = IF @ = Some("") THEN None ELSE @,
                 !.comment = IF @ = Some("") THEN None ELSE @,
                 !.pattern = IF @ = Some("") THEN None ELSE @,
                 !.format = IF @ = Some("") THEN None ELSE @]
UnsetDefaultsIn(doc_types) ==
    [d \in DOMAIN doc_types |-> [doc_types[d] EXCEPT !.properties =
        [p \in DOMAIN @ |->
            LET prop == UnsetDefaults(@[p]) IN
            IF IsSome(prop.properties)
            THEN [prop EXCEPT !.properties =
                    Some([c \in DOMAIN Unwrap(@) |-> UnsetDefaults(Unwrap(@)[c])])]
            ELSE prop]]]

\* C9: omission rule: a property with min_length = Some(0) compiles to the
\* same object as the property with min_length unset, and an optional string
\* field set to the empty string compiles the same as the field unset: what
\* Submit writes is what it writes for the tree with those fields unset.
OmissionRule ==
    [][last'.msg = "Submit"
            => json_object' = generate_json_object(UnsetDefaultsIn(document_types)).json_arr]_vars

\* A compile has written the object of a property whose min_length is Some(0)
\* and whose pattern is the empty string, with neither key in it.
OmissionRuleWitness ==
    /\ last.msg = "Submit"
    /\ \E d \in DocIndices : \E p \in PropIndices(d) :
        LET prop == document_types[d].properties[p] IN
        /\ prop.min_length = Some(0)
        /\ prop.pattern = Some("")
        /\ DistinctNames(document_types[d].properties)
        /\ DOMAIN EmittedProperty(d, prop.name) = {"type"}

ImportedObject(d) == parsed_json(imported_json)[document_types[d].name].v
ImportedPropertyObject(d, p) ==
    ImportedObject(d)["properties"].v[document_types[d].properties[p].name].v
ImportedChildObject(d, p, r) ==
    ImportedPropertyObject(d, p)["properties"].v[Children(document_types[d].properties[p])[r].name].v

\* The keys of an object's "properties" object (none when it has none).
NestedKeys(obj) ==
    IF "properties" \in DOMAIN obj /\ IsSome(as_object(obj["properties"]))
    THEN DOMAIN obj["properties"].v
    ELSE {}

\* C11: import is recursive over nesting depth: an imported child whose object
\* has a "properties" object of its own carries one grandchild per key of it,
\* each required exactly when the child's own "required" array lists it.
ImportReachesGrandchildren ==
    (last.msg = "Import" /\ ~panicked) =>
        \A d \in DocIndices : \A p \in PropIndices(d) : \A r \in RecPropIndices(d, p) :
            LET child == Children(document_types[d].properties[p])[r]
                obj == ImportedChildObject(d, p, r)
            IN NestedKeys(obj) # {} =>
                  /\ {Children(child)[g].name : g \in DOMAIN Children(child)} = NestedKeys(obj)
                  /\ RequiredNames(Children(child)) = {k \in NestedKeys(obj) : ListedIn(obj, k)}

\* The strings an object's "required" array lists (none when it has no such array).
RequiredArrayNames(obj) ==
    IF "required" \in DOMAIN obj /\ obj["required"].t = "array"
    THEN {obj["required"].v[i].v : i \in {j \in 1..Len(obj["required"].v) : obj["required"].v[j].t = "string"}}
    ELSE {}

\* C12: after an Import, a top-level property is required exactly when the
\* document type's "required" array lists its name, and a child is required
\* exactly when the "required" array of its enclosing Object property lists
\* its name (the document type's array plays no part for a child).
ImportedRequiredFlags ==
    (last.msg = "Import" /\ ~panicked) =>
        \A d \in DocIndices : \A p \in PropIndices(d) :
            LET prop == document_types[d].properties[p] IN
            /\ prop.required <=> prop.name \in RequiredArrayNames(ImportedObject(d))
            /\ \A r \in RecPropIndices(d, p) :
                  LET child == Children(prop)[r] IN
                  child.required <=> child.name \in RequiredArrayNames(ImportedPropertyObject(d, p))

\* An Import has built a required property, a required child, and a child
\* that is not required although the document type's array lists its name.
ImportedRequiredFlagsWitness ==
    /\ last.msg = "Import" /\ ~panicked
    /\ \E d \in DocIndices : \E p, q \in PropIndices(d) : \E r, t \in RecPropIndices(d, p) :
          /\ document_types[d].properties[q].required
          /\ ~document_types[d].properties[p].required
          /\ Children(document_types[d].properties[p])[r].required
          /\ ~Children(document_types[d].properties[p])[t].required
          /\ Children(document_types[d].properties[p])[t].name \in RequiredArrayNames(ImportedObject(d))

\* The top-level keys of the text in the import box (none when it does not
\* parse as a JSON mapping).
ImportedKeys == DOMAIN parsed_json(imported_json)

\* C13: Import replaces the whole model: after an Import, whatever the model
\* held before, every document type is named by a top-level key of the
\* imported text, no key has two document types, and each document type has
\* exactly the properties its object in the text has; nothing of the previous
\* model is kept or merged.
ImportReplacesModel ==
    last.msg = "Import" =>
        /\ \A d \in DocIndices : document_types[d].name \in ImportedKeys
        /\ \A d, e \in DocIndices : document_types[d].name = document_types[e].name => d = e
        /\ \A d \in DocIndices :
              /\ {document_types[d].properties[p].name : p \in PropIndices(d)}
                    = NestedKeys(ImportedObject(d))
              /\ Len(document_types[d].properties) = Cardinality(NestedKeys(ImportedObject(d)))

\* An Import of a text with two keys has left exactly the two document types
\* of the text.
ImportReplacesModelWitness ==
    /\ last.msg = "Import"
    /\ Cardinality(ImportedKeys) = 2
    /\ Len(document_types) = 2
    /\ {document_types[d].name : d \in DocIndices} = ImportedKeys

\* C14: after a successful Import the model holds exactly one document type
\* for each top-level key of the imported document, named by that key, and
\* the names of the document types are the keys of the entries of json_object.
ImportBuildsOneDocumentTypePerKey ==
    (last.msg = "Import" /\ ~panicked /\ ParsesAsMapping(imported_json)) =>
        /\ {document_types[d].name : d \in DocIndices} = ImportedKeys
        /\ Len(document_types) = Cardinality(ImportedKeys)
        /\ {document_types[d].name : d \in DocIndices}
              = {json_object[i].key : i \in DOMAIN json_object}

\* The constraint fields that belong to a data type.
ConstraintGroup(data_type) ==
    CASE data_type = "String" -> {"min_length", "max_length", "pattern", "format"}
      [] data_type = "Integer" -> {"minimum", "maximum"}
      [] data_type = "Array" -> {"byte_array", "min_items", "max_items"}
      [] data_type = "Object" -> {"min_properties", "max_properties", "properties", "rec_required"}
      [] OTHER -> {}

AllConstraintFields ==
    UNION {ConstraintGroup(data_type) : data_type \in DataTypes}

\* A scalar constraint is populated when it is Some; the child list and the
\* nested required set are populated when they hold at least one element.
Populated(prop, field) ==
    IF field \in {"properties", "rec_required"}
    THEN IsSome(prop[field]) /\ Unwrap(prop[field]) # <<>>
    ELSE IsSome(prop[field])

OnlyOwnGroup(prop) ==
    \A field \in AllConstraintFields \ ConstraintGroup(prop.data_type) : ~Populated(prop, field)

\* C15: in every reachable state each property, top-level or nested, has no
\* constraint field populated outside the group of its current data type
\* (a switch of data type unsets the fields of the other groups, the child
\* list and the nested required set included).
OnlyCurrentGroupPopulated ==
    \A d \in DocIndices : \A p \in PropIndices(d) :
        /\ OnlyOwnGroup(document_types[d].properties[p])
        /\ \A r \in RecPropIndices(d, p) :
              OnlyOwnGroup(Children(document_types[d].properties[p])[r])

\* C16: after any sequence of edits followed by a compile, the object
\* compiled for a property has a "required" key only if the property's data
\* type is Object.
NestedRequiredOnlyForObject ==
    last.msg = "Submit" =>
        \A d \in DocIndices : \A p \in PropIndices(d) :
            LET prop == document_types[d].properties[p] IN
            (DistinctNames(document_types[d].properties)
                /\ "required" \in DOMAIN EmittedProperty(d, prop.name))
                    => prop.data_type = "Object"

\* The keys "properties" and "additionalProperties" of a compiled property
\* object go with the data type Object: both present, the latter false, for
\* an Object; both absent otherwise.
ObjectKeysMatchType(prop, obj) ==
    IF prop.data_type = "Object"
    THEN /\ "properties" \in DOMAIN obj
         /\ "additionalProperties" \in DOMAIN obj
         /\ obj["additionalProperties"] = JBool(FALSE)
    ELSE /\ "properties" \notin DOMAIN obj
         /\ "additionalProperties" \notin DOMAIN obj

\* C17: for every property, top-level or nested, compile emits "properties"
\* and "additionalProperties": false exactly when the property's data type is
\* Object; an Object property without children still gets "properties".
ObjectKeysEmittedForObjects ==
    last.msg = "Submit" =>
        \A d \in DocIndices : \A p \in PropIndices(d) :
            LET prop == document_types[d].properties[p] IN
            DistinctNames(document_types[d].properties) =>
                /\ ObjectKeysMatchType(prop, EmittedProperty(d, prop.name))
                /\ (prop.data_type = "Object" /\ DistinctNames(Children(prop))) =>
                      \A r \in DOMAIN Children(prop) :
                          ObjectKeysMatchType(Children(prop)[r],
                              EmittedProperty(d, prop.name)["properties"].v[Children(prop)[r].name].v)

\* A compile of an Object property with two children: an Object child
\* without children of its own, which gets an empty "properties", and a
\* String child, which gets neither key.
ObjectKeysEmittedForObjectsWitness ==
    /\ last.msg = "Submit"
    /\ \E d \in DocIndices : \E p \in PropIndices(d) :
          LET prop == document_types[d].properties[p]
              nested == EmittedProperty(d, prop.name)["properties"].v
          IN /\ prop.data_type = "Object"
             /\ Len(Children(prop)) = 2
             /\ DistinctNames(Children(prop))
             /\ Children(prop)[1].data_type = "Object"
             /\ Children(Children(prop)[1]) = <<>>
             /\ Children(prop)[2].data_type = "String"
             /\ nested[Children(prop)[1].name].v["properties"] = JObj(MapOf({}))
             /\ "properties" \notin DOMAIN nested[Children(prop)[2].name].v

\* The keys a compiled document type may have.
DocumentKeys == {"type", "properties", "indices", "required", "additionalProperties", "$comment"}

\* The spec's scenario: the document type "note" with one required String
\* property "body" that has no constraints.
NoteDocumentType ==
    [DocumentTypeDefault EXCEPT
        !.name = "note",
        !.properties = <<[PropertyDefault EXCEPT !.name = "body", !.required = TRUE]>>]

\* C18: the object compiled for a document type always has "type" = "object",
\* "properties" and "additionalProperties" = false; it has "indices" exactly
\* when the document type has an index, "required" exactly when some property
\* is required, "$comment" exactly when the comment is not empty, and no
\* other key. The document type "note" with one required String property
\* "body" compiles to the object of the spec's scenario.
DocumentTypeFieldMap ==
    last.msg = "Submit" =>
        \A d \in DocIndices :
            LET doc_type == document_types[d]
                obj == EmittedDocument(d)
            IN /\ DOMAIN obj \subseteq DocumentKeys
               /\ obj["type"] = JStr("object")
               /\ "properties" \in DOMAIN obj
               /\ obj["additionalProperties"] = JBool(FALSE)
               /\ "indices" \in DOMAIN obj <=> doc_type.indices # <<>>
               /\ "required" \in DOMAIN obj <=> RequiredNames(doc_type.properties) # {}
               /\ "$comment" \in DOMAIN obj <=> doc_type.comment # ""
               /\ [doc_type EXCEPT !.required = <<>>] = NoteDocumentType =>
                     json_object[d] = [key |-> "note", value |-> NoteDocument.v["note"]]

\* C19: an index round-trips through compile and import: an Import of the
\* text compiled from the document types in the editor leaves, under each
\* document type's name, the same indices in the same order, each with the
\* same name, the same unique flag and the same sequence of (property,
\* sorting) pairs.
IndexRoundTrip ==
    [][(/\ last'.msg = "Import"
        /\ DistinctNames(document_types)
        /\ imported_json = CompiledText(document_types))
            => /\ ~panicked'
               /\ \A d \in DOMAIN document_types :
                     \E e \in DOMAIN document_types' :
                        /\ document_types'[e].name = document_types[d].name
                        /\ document_types'[e].indices = document_types[d].indices]_vars

\* An Import of the compiled text has rebuilt a unique index with two
\* properties, the second sorted "desc", followed by an index that is not unique.
IndexRoundTripWitness ==
    /\ last.msg = "Import" /\ ~panicked
    /\ imported_json = CompiledText(document_types)
    /\ \E d \in DocIndices :
          /\ Len(document_types[d].indices) = 2
          /\ document_types[d].indices[1].unique
          /\ ~document_types[d].indices[2].unique
          /\ Len(document_types[d].indices[1].properties) = 2
          /\ document_types[d].indices[1].properties[1] = <<"b", "asc">>
          /\ document_types[d].indices[1].properties[2] = <<"a", "desc">>
          /\ "unique" \notin DOMAIN EmittedDocument(d)["indices"].v[2].v

\* The text the claim gives a violation: "<category>: <summary>, Path:
\* <instancePath>" for a schema-conformance violation, its default textual
\* description otherwise.
FormattedText(error) ==
    IF error.json_schema
    THEN <<"JsonSchemaError: ", error.summary, ", Path: ", error.instance_path>>
    ELSE <<error.display>>

\* The violations the validator returned in the run of the last Submit.
ReturnedViolations ==
    IF last.run.created /\ last.run.validated
    THEN {last.run.errors[i] : i \in DOMAIN last.run.errors}
    ELSE {}

\* C20: after a Submit, the message list holds the formatted text of every
\* violation the validator returned; no violation is left without a message.
EveryViolationHasMessage ==
    (last.msg = "Submit" /\ ~panicked) =>
        \A error \in ReturnedViolations :
            \E i \in DOMAIN error_messages : error_messages[i] = FormattedText(error)

\* The formatted texts of the BasicError violations among ReturnedViolations.
BasicTexts == {FormattedText(error) : error \in {e \in ReturnedViolations : e.basic}}

\* C21: the message list has no duplicates: after a Submit, each distinct
\* formatted message appears exactly once, also when several violations
\* format to the same text.
MessagesAreDeduplicated ==
    (last.msg = "Submit" /\ ~panicked) =>
        /\ NoDuplicates(error_messages)
        /\ \A text \in BasicTexts :
              Cardinality({i \in DOMAIN error_messages : error_messages[i] = text}) = 1

\* A Submit whose validator run returned two distinct violations with the
\* same formatted text has left one message.
MessagesAreDeduplicatedWitness ==
    /\ last.msg = "Submit" /\ ~panicked
    /\ Len(last.run.errors) = 2
    /\ last.run.errors[1] # last.run.errors[2]
    /\ FormattedText(last.run.errors[1]) = FormattedText(last.run.errors[2])
    /\ Len(error_messages) = 1

\* C22: an empty message list means validation passed: after a Submit that
\* leaves no message, the validator run completed and reported no violation;
\* a run that fails or reports a violation never leaves an empty list.
EmptyListMeansPassed ==
    (last.msg = "Submit" /\ ~panicked /\ error_messages = <<>>) =>
        /\ last.run.created
        /\ last.run.validated
        /\ last.run.errors = <<>>

\* "byteArray" is in the compiled object exactly when byte_array is present,
\* and then with its value.
ByteArrayMatches(prop, obj) ==
    /\ "byteArray" \in DOMAIN obj <=> IsSome(prop.byte_array)
    /\ IsSome(prop.byte_array) => obj["byteArray"] = JBool(Unwrap(prop.byte_array))

\* C23: for every property, top-level or nested, compile emits "byteArray"
\* exactly when byte_array is present, with its value, false included.
ByteArrayEmittedWhenPresent ==
    last.msg = "Submit" =>
        \A d \in DocIndices : \A p \in PropIndices(d) :
            LET prop == document_types[d].properties[p] IN
            DistinctNames(document_types[d].properties) =>
                /\ ByteArrayMatches(prop, EmittedProperty(d, prop.name))
                /\ (prop.data_type = "Object" /\ DistinctNames(Children(prop))) =>
                      \A r \in DOMAIN Children(prop) :
                          ByteArrayMatches(Children(prop)[r],
                              EmittedProperty(d, prop.name)["properties"].v[Children(prop)[r].name].v)

\* A compile of an Object property whose child is an Array with byte_array =
\* Some(false): the child's object has "byteArray": false.
ByteArrayEmittedWhenPresentWitness ==
    /\ last.msg = "Submit"
    /\ \E d \in DocIndices : \E p \in PropIndices(d) :
          LET prop == document_types[d].properties[p] IN
          /\ prop.data_type = "Object"
          /\ DistinctNames(Children(prop))
          /\ \E r \in DOMAIN Children(prop) :
                /\ Children(prop)[r].byte_array = Some(FALSE)
                /\ EmittedProperty(d, prop.name)["properties"].v[Children(prop)[r].name].v["byteArray"]
                      = JBool(FALSE)

\* The objects of an array-valued key of an object (none when the key is
\* absent or not an array).
ObjectsUnder(obj, key) ==
    IF key \in DOMAIN obj /\ obj[key].t = "array"
    THEN SelectSeq(obj[key].v, LAMBDA x : x.t = "object")
    ELSE <<>>

\* The last key met while iterating an object.
LastKey(obj) == MapKeys(DOMAIN obj)[Cardinality(DOMAIN obj)]

\* C24: on import, each object of an index's "properties" array yields
\* exactly one (property, sorting) pair; when the object has more than one
\* key the pair is that of the last key iterated, and the other keys yield
\* no pair.
IndexPropertyLastKeyWins ==
    (last.msg = "Import" /\ ~panicked) =>
        \A d \in DocIndices :
            LET index_objs == ObjectsUnder(ImportedObject(d), "indices") IN
            /\ Len(document_types[d].indices) = Len(index_objs)
            /\ \A i \in DOMAIN index_objs :
                  LET pair_objs == ObjectsUnder(index_objs[i].v, "properties")
                      pairs == document_types[d].indices[i].properties
                  IN /\ Len(pairs) = Len(pair_objs)
                     /\ \A k \in DOMAIN pair_objs :
                           DOMAIN pair_objs[k].v # {} =>
                              pairs[k] = <<LastKey(pair_objs[k].v),
                                           pair_objs[k].v[LastKey(pair_objs[k].v)].v>>

\* An Import of an index whose second "properties" object has two keys has
\* left two pairs, the second taken from the last key.
IndexPropertyLastKeyWinsWitness ==
    /\ last.msg = "Import" /\ ~panicked
    /\ \E d \in DocIndices : \E i \in IndexIndices(d) :
          LET pair_objs == ObjectsUnder(ObjectsUnder(ImportedObject(d), "indices")[i].v, "properties") IN
          /\ Len(pair_objs) = 2
          /\ Cardinality(DOMAIN pair_objs[2].v) = 2
          /\ Len(document_types[d].indices[i].properties) = 2
          /\ document_types[d].indices[i].properties[2] = <<"b", "asc">>

\* The type-name map of the spec.
TypeMap ==
    {<<"String", "string">>, <<"Integer", "integer">>, <<"Array", "array">>,
     <<"Object", "object">>, <<"Number", "number">>, <<"Boolean", "boolean">>}

\* The compiled object carries the type name the map gives the data type.
TypeNameMatches(prop, obj) == <<prop.data_type, obj["type"].v>> \in TypeMap

\* The property of the list that has the given name, as a set (empty when
\* there is none).
Named(props, name) == {props[i] : i \in {j \in DOMAIN props : props[j].name = name}}

\* Every property of before, and every child of it, is found by its name in
\* after with the same data type.
SameDataTypes(before, after) ==
    \A p \in DOMAIN before :
        \E q \in DOMAIN after :
            /\ after[q].name = before[p].name
            /\ after[q].data_type = before[p].data_type
            /\ \A c \in DOMAIN Children(before[p]) :
                  \E e \in DOMAIN Children(after[q]) :
                     /\ Children(after[q])[e].name = Children(before[p])[c].name
                     /\ Children(after[q])[e].data_type = Children(before[p])[c].data_type

\* Names distinct among the properties and among the children of each
\* Object property; children under Object properties only.
DistinctTree(doc_types) ==
    /\ DistinctNames(doc_types)
    /\ \A d \in DOMAIN doc_types :
          /\ DistinctNames(doc_types[d].properties)
          /\ \A p \in DOMAIN doc_types[d].properties :
                /\ DistinctNames(Children(doc_types[d].properties[p]))
                /\ Children(doc_types[d].properties[p]) # <<>>
                      => doc_types[d].properties[p].data_type = "Object"

\* C25: the type-name map is used in both directions, for top-level and
\* nested properties alike: a compile emits for each property the type name
\* the map gives its data type, and an Import of the compiled text gives each
\* property the data type it had.
TypeMapBothWays ==
    [][/\ (last'.msg = "Submit" /\ DistinctTree(document_types')) =>
            \A d \in DOMAIN document_types' : \A p \in DOMAIN document_types'[d].properties :
               LET prop == document_types'[d].properties[p]
                   obj == json_object'[d].value.v["properties"].v[prop.name].v
               IN /\ TypeNameMatches(prop, obj)
                  /\ \A c \in DOMAIN Children(prop) :
                        TypeNameMatches(Children(prop)[c],
                                        obj["properties"].v[Children(prop)[c].name].v)
       /\ (/\ last'.msg = "Import"
           /\ DistinctTree(document_types)
           /\ imported_json = CompiledText(document_types)) =>
               /\ ~panicked'
               /\ \A d \in DOMAIN document_types :
                     \E e \in DOMAIN document_types' :
                        /\ document_types'[e].name = document_types[d].name
                        /\ SameDataTypes(document_types[d].properties,
                                         document_types'[e].properties)]_vars

\* An Import of the compiled text has rebuilt a property of type Object with
\* two children, one of them of type Number.
TypeMapBothWaysWitness ==
    /\ last.msg = "Import" /\ ~panicked
    /\ DistinctTree(document_types)
    /\ imported_json = CompiledText(document_types)
    /\ \E d \in DocIndices : \E p \in PropIndices(d) :
          /\ document_types[d].properties[p].data_type = "Object"
          /\ Len(Children(document_types[d].properties[p])) = 2
          /\ \E c \in RecPropIndices(d, p) :
                Children(document_types[d].properties[p])[c].data_type = "Number"

\* A document type with its required sets blanked: what a compile must leave
\* as it found it.
OutsideRequiredSets(doc_type) ==
    [doc_type EXCEPT
        !.required = <<>>,
        !.properties = [i \in DOMAIN doc_type.properties |->
                            [doc_type.properties[i] EXCEPT !.rec_required = None]]]

\* C26: a compile changes nothing in the model except the required sets: the
\* number and order of document types and properties, and every field of
\* them other than DocumentType.required and Property.rec_required, are as
\* before.
CompileChangesOnlyRequiredSets ==
    [][last'.msg = "Submit" =>
          /\ Len(document_types') = Len(document_types)
          /\ \A d \in DOMAIN document_types :
                OutsideRequiredSets(document_types'[d]) = OutsideRequiredSets(document_types[d])]_vars

\* A compile has filled both required sets of a document type whose Object
\* property has children.
CompileChangesOnlyRequiredSetsWitness ==
    /\ last.msg = "Submit"
    /\ \E d \in DocIndices :
          /\ document_types[d].required # <<>>
          /\ \E p \in PropIndices(d) :
                /\ document_types[d].properties[p].data_type = "Object"
                /\ Len(Children(document_types[d].properties[p])) = 2
                /\ IsSome(document_types[d].properties[p].rec_required)
                /\ Unwrap(document_types[d].properties[p].rec_required) # <<>>

\* fn view, the block under "Contract": whether it shows the "Validation
\* errors:" list or "Validation passed".
ValidationStatusShown(object, imported, messages) ==
    /\ imported.empty
    /\ (messages # <<>> \/ object # <<>>)

\* C27: the view reports a validation status only for the contract that was
\* validated: a step after which a status is shown is a Submit, or has left
\* both the contract in json_object and error_messages as they were.
StatusIsForValidatedContract ==
    [][(~panicked' /\ ValidationStatusShown(json_object', imported_json', error_messages')) =>
          \/ last'.msg = "Submit"
          \/ (json_object' = json_object /\ error_messages' = error_messages)]_vars

\* C28: the entries of json_object, joined with commas and wrapped in braces,
\* always parse as a JSON object, so the parse that view and validate unwrap
\* never aborts: after an Import no entry has a key that was written without
\* the escaping it needs, whatever the top-level keys of the imported text.
JoinedEntriesAlwaysParse ==
    last.msg = "Import" => \A i \in DOMAIN json_object : ~NeedsEscape(json_object[i].key)

\* C29: in every reachable state no name occurs more than once in a document
\* type's required list or in a property's rec_required: each is a set.
RequiredListsAreSets ==
    \A d \in DocIndices :
        /\ NoDuplicates(document_types[d].required)
        /\ \A p \in PropIndices(d) :
              IsSome(document_types[d].properties[p].rec_required) =>
                  NoDuplicates(Unwrap(document_types[d].properties[p].rec_required))

\* Two compiles have run over two required properties of one name: the second
\* found the name in the list already.
RequiredListsAreSetsWitness ==
    /\ last.msg = "Submit"
    /\ json_object # <<>>
    /\ \E d \in DocIndices :
          /\ Len(document_types[d].properties) = 2
          /\ document_types[d].properties[1].name = document_types[d].properties[2].name
          /\ document_types[d].properties[1].required
          /\ document_types[d].properties[2].required
          /\ document_types[d].required = <<document_types[d].properties[1].name>>

====
